---- MODULE Spec2Model ----
(***************************************************************************)
(* GitScore-Copilot: the client-side scoring service (localStorage cache,  *)
(* GraphQL client singleton, token validation), the MongoDB score cache    *)
(* and the /api/score/[owner]/[repo] handler.                              *)
(*                                                                         *)
(* Time is Date.now() in milliseconds.  Owner and repository names are     *)
(* sequences of one-character strings, so that toLowerCase and the         *)
(* template literal that builds the localStorage key are computed.         *)
(***************************************************************************)
EXTENDS Integers, Sequences, FiniteSets, TLC

VARIABLES
    now,             \* Date.now(), ms
    ticks,           \* number of clock advances so far (bounded by MaxTicks)
    githubGraphQL,   \* GitHubScorerService.githubGraphQL: "null" or the token of the client
    tokenValidation, \* GitHubScorerService.tokenValidation
    localStorage,    \* window.localStorage: key -> stored text
    call,            \* per caller: the handleSubmit / calculateScore invocation in flight
    init,            \* per caller: the un-awaited initialize(token) started by its submit
    env,             \* process.env: which of MONGODB_URI, GITHUB_TOKEN are set
    db,              \* mongodb.js module variable db: "none" or "GitData"
    ttlIndex,        \* whether the TTL index on scores.createdAt exists
    scores,          \* the MongoDB collection GitData.scores, in natural order
    req,             \* per API request: the handler invocation in flight
    side,            \* what this execution runs: the page, the API route or the scorer
    snapshot,        \* the repository data handed to calculateRepositoryScore
    listing,         \* the workflow data handed to calculateRepositoryScore
    scored           \* what the calls of calculateRepositoryScore returned, in order

vars == <<now, ticks, githubGraphQL, tokenValidation, localStorage, call, init,
          env, db, ttlIndex, scores, req, side, snapshot, listing, scored>>

clientVars == <<githubGraphQL, tokenValidation, localStorage, call, init>>
serverVars == <<env, db, ttlIndex, scores, req>>
scorerVars == <<snapshot, listing, scored>>

(***************************************************************************)
(* Bounds of the model                                                     *)
(***************************************************************************)
MaxTicks == 2
MaxDocs == 2
MaxScored == 2

(***************************************************************************)
(* Program constants                                                       *)
(***************************************************************************)
LOCAL_TTL_MS == 3600000
MONGO_TTL_SECONDS == 86400

MongoTtlMs == MONGO_TTL_SECONDS * 1000

(***************************************************************************)
(* Names, String.prototype.toLowerCase, and the localStorage key           *)
(***************************************************************************)
Owners == {<<"a">>, <<"A">>}
Repos == {<<"r">>}

LowerChar(c) ==
    CASE c = "A" -> "a"
      [] c = "B" -> "b"
      [] c = "C" -> "c"
      [] c = "R" -> "r"
      [] OTHER -> c

toLowerCase(s) == [i \in 1..Len(s) |-> LowerChar(s[i])]

\* `github-score-${owner}-${repo}`
CacheKey(owner, repo) == <<"github-score-">> \o owner \o <<"-">> \o repo

(***************************************************************************)
(* JavaScript values.  An optional value is a sequence of length 0         *)
(* (undefined / null) or 1.  An object is a function from field names.     *)
(***************************************************************************)
Undefined == <<>>
Some(v) == <<v>>
IsDefined(m) == Len(m) > 0
Get(m) == m[1]

HasField(obj, f) == f \in DOMAIN obj

\* the fields whose value is an optional value (undefined when empty)
OptionalFields == {"rateLimit"}

IsUndefinedField(obj, f) == f \in OptionalFields /\ obj[f] = Undefined

\* { ...obj, [f]: v }
WithField(obj, f, v) ==
    [g \in (DOMAIN obj) \cup {f} |-> IF g = f THEN v ELSE obj[g]]

\* { ...a, ...b }
Spread(a, b) ==
    [g \in (DOMAIN a) \cup (DOMAIN b) |-> IF g \in DOMAIN b THEN b[g] ELSE a[g]]

(***************************************************************************)
(* JSON.  A text is the serialisation of an object, the text "null", or    *)
(* text that is not JSON at all.  JSON.stringify drops the properties      *)
(* whose value is undefined; JSON.parse throws on text that is not JSON.   *)
(***************************************************************************)
NoObject == <<>>

JSON_stringify(obj) ==
    [kind |-> "object",
     value |-> [f \in {g \in DOMAIN obj : ~IsUndefinedField(obj, g)} |-> obj[f]]]

InvalidJsonText == [kind |-> "garbage", value |-> NoObject]
NullJsonText == [kind |-> "null", value |-> NoObject]

\* [threw, isNull, value]
JSON_parse(text) ==
    CASE text.kind = "object" -> [threw |-> FALSE, isNull |-> FALSE, value |-> text.value]
      [] text.kind = "null" -> [threw |-> FALSE, isNull |-> TRUE, value |-> NoObject]
      [] OTHER -> [threw |-> TRUE, isNull |-> TRUE, value |-> NoObject]

(***************************************************************************)
(* window.localStorage                                                     *)
(***************************************************************************)
EmptyStorage == <<>>

\* Storage.getItem: the stored text, or null
getItem(store, key) == IF key \in DOMAIN store THEN Some(store[key]) ELSE Undefined

\* Storage.setItem
setItem(store, key, text) ==
    [k \in (DOMAIN store) \cup {key} |-> IF k = key THEN text ELSE store[k]]

(***************************************************************************)
(* GitHubScorerService.getCachedScore / cacheScore (localStorage)          *)
(* storageOk = FALSE: the localStorage access itself throws (storage       *)
(* unavailable, quota exceeded).                                           *)
(***************************************************************************)
\* the try block of getCachedScore with an age test that admits an entry of
\* exactly one hour (<= for <)
getCachedScoreTryInclusive(store, owner, repo, t, storageOk) ==
    LET cached == getItem(store, CacheKey(owner, repo))
    IN  IF ~storageOk THEN [threw |-> TRUE, value |-> Undefined]
        ELSE IF ~IsDefined(cached) THEN [threw |-> FALSE, value |-> Undefined]
        ELSE LET parsed == JSON_parse(Get(cached))
             IN  IF parsed.threw \/ parsed.isNull THEN [threw |-> TRUE, value |-> Undefined]
                 ELSE IF HasField(parsed.value, "timestamp")
                         /\ t - parsed.value.timestamp <= LOCAL_TTL_MS
                      THEN [threw |-> FALSE, value |-> Some(parsed.value)]
                      ELSE [threw |-> FALSE, value |-> Undefined]

\* a getCachedScore that returns whatever entry is stored, whatever its age
getCachedScoreAnyAge(store, owner, repo, t, storageOk) ==
    LET cached == getItem(store, CacheKey(owner, repo))
    IN  IF storageOk /\ IsDefined(cached) /\ Get(cached).kind = "object"
           /\ HasField(Get(cached).value, "timestamp")
        THEN [threw |-> FALSE, value |-> Some(Get(cached).value)]
        ELSE [threw |-> FALSE, value |-> Undefined]

\* a cacheScore without its catch: the storage error reaches the caller
cacheScoreNoCatch(store, owner, repo, scoreData, t, storageOk) ==
    [threw |-> ~storageOk, ok |-> storageOk,
     store |-> IF storageOk
               THEN setItem(store, CacheKey(owner, repo),
                            JSON_stringify(WithField(scoreData, "timestamp", t)))
               ELSE store]

\* the body of the try block of getCachedScore: [threw, value]
getCachedScoreTry(store, owner, repo, t, storageOk) ==
    LET key == CacheKey(owner, repo)
        cached == getItem(store, key)
    IN  IF ~storageOk THEN [threw |-> TRUE, value |-> Undefined]
        ELSE IF ~IsDefined(cached) THEN [threw |-> FALSE, value |-> Undefined]
        ELSE LET parsed == JSON_parse(Get(cached))
             IN  IF parsed.threw THEN [threw |-> TRUE, value |-> Undefined]
                 \* data.timestamp on null: TypeError
                 ELSE IF parsed.isNull THEN [threw |-> TRUE, value |-> Undefined]
                 \* a missing timestamp makes cacheAge NaN, and NaN < 3600000 is false
                 ELSE IF HasField(parsed.value, "timestamp")
                         /\ t - parsed.value.timestamp < LOCAL_TTL_MS
                      THEN [threw |-> FALSE, value |-> Some(parsed.value)]
                      ELSE [threw |-> FALSE, value |-> Undefined]

\* getCachedScore with its catch: [threw, value]; value is the data or null
getCachedScore(store, owner, repo, t, storageOk) ==
    LET r == getCachedScoreTry(store, owner, repo, t, storageOk)
    IN  IF r.threw THEN [threw |-> FALSE, value |-> Undefined] ELSE r

\* the body of the try block of cacheScore: [threw, store]
cacheScoreTry(store, owner, repo, scoreData, t, storageOk) ==
    LET key == CacheKey(owner, repo)
        data == WithField(scoreData, "timestamp", t)
    IN  IF ~storageOk THEN [threw |-> TRUE, store |-> store]
        ELSE [threw |-> FALSE, store |-> setItem(store, key, JSON_stringify(data))]

\* cacheScore with its catch: [threw, ok, store]; ok is the boolean returned
cacheScore(store, owner, repo, scoreData, t, storageOk) ==
    LET r == cacheScoreTry(store, owner, repo, scoreData, t, storageOk)
    IN  [threw |-> FALSE, ok |-> ~r.threw, store |-> r.store]

(***************************************************************************)
(* lib/scoring.js.  A sub-score s in [0, 1] is the integer s * One; a      *)
(* category score (the mean of four sub-sub) is kept as the sum of its  *)
(* four sub-sub, in units of 1 / (4 * One).  Weights are in percent.    *)
(* Final and display sub are in tenths, as Math.round(x * 100) / 10.    *)
(***************************************************************************)
One == 6 * 1000

\* The timestamps of a snapshot (pushedAt, committedDate) are whole hours, given
\* in hours; differences to Date.now() are then exact in hours.
HourMs == 60 * 60 * 1000

\* weights that favour documentation, in percent
DocumentationHeavyWeights ==
    [documentation |-> 25, maintenance |-> 20, quality |-> 15,
     community |-> 15, popularity |-> 15, security |-> 15]

CATEGORY_WEIGHTS ==
    [documentation |-> 20, maintenance |-> 20, quality |-> 15,
     community |-> 15, popularity |-> 15, security |-> 15]

Categories ==
    {"documentation", "maintenance", "quality", "community", "popularity", "security"}

Min(a, b) == IF a <= b THEN a ELSE b
Max(a, b) == IF a >= b THEN a ELSE b

\* floor(10^4 * ln n), for the arguments the model uses
LnE4(n) ==
    CASE n = 1 -> 0
      [] n = 2 -> 6931
      [] n = 3 -> 10986
      [] n = 4 -> 13862
      [] n = 5 -> 16094
      [] n = 6 -> 17917
      [] n = 7 -> 19459
      [] n = 8 -> 20794
      [] n = 9 -> 21972
      [] n = 10 -> 23025
      [] n = 11 -> 23978
      [] n = 50 -> 39120
      [] n = 51 -> 39318
      [] n = 101 -> 46151
      [] n = 1001 -> 69087
      [] n = 10001 -> 92104

\* logarithmic scaling without the clamp at max
normalizeLogUnclamped(value, min, max) ==
    IF value <= min THEN 0
    ELSE (One * LnE4(value - min + 1)) \div LnE4(max - min + 1)

normalizeLog(value, min, max) ==
    IF value <= min THEN 0
    ELSE IF value >= max THEN One
    ELSE (One * LnE4(value - min + 1)) \div LnE4(max - min + 1)

\* linear scaling without the clamp at max
normalizeLinearUnclamped(value, min, max) ==
    IF value <= min THEN 0 ELSE (One * (value - min)) \div (max - min)

normalizeLinear(value, min, max) ==
    IF value <= min THEN 0
    ELSE IF value >= max THEN One
    ELSE (One * (value - min)) \div (max - min)

\* x * 10 * 10 for x = num / den, cut off instead of rounded
FloorTenths(num, den) == (100 * num) \div den

\* Math.round(x * 10 * 10) for x = num / den (den > 0): half rounds up
RoundTenths(num, den) == (2 * 100 * num + den) \div (2 * den)

\* an absent count taken as 1
OrOne(m) == IF IsDefined(m) THEN Get(m) ELSE 1

\* x?.totalCount || 0, x || 0: an absent count is 0
OrZero(m) == IF IsDefined(m) THEN Get(m) ELSE 0

\* README sub-score from what the regular expressions measure on the text
readmeScore(readme) ==
    IF ~IsDefined(readme) THEN 0
    ELSE LET m == Get(readme)
             basic == IF m.length > 500 /\ m.sections >= 2 THEN One \div 2 ELSE 0
             \* codeBlocks = (number of ``` fences) / 2
             advanced == IF m.fences >= 2 /\ m.links >= 2 /\ m.badges >= 1
                         THEN One \div 2 ELSE 0
         IN  Min(basic + advanced, One)

\* a release grading without the middle tier
releasesScoreTwoTier(releaseCount) ==
    IF releaseCount >= 5 THEN One
    ELSE IF releaseCount >= 1 THEN (4 * One) \div 10
    ELSE 0

releasesScore(releaseCount) ==
    IF releaseCount >= 5 THEN One
    ELSE IF releaseCount >= 2 THEN (7 * One) \div 10
    ELSE IF releaseCount >= 1 THEN (4 * One) \div 10
    ELSE 0

scoreDocumentation(repo) ==
    LET sub ==
            [readme |-> readmeScore(repo.readme),
             contributing |-> IF IsDefined(repo.contributing) /\ Get(repo.contributing) > 100
                              THEN One ELSE 0,
             codeOfConduct |-> IF repo.codeOfConduct THEN One ELSE 0,
             releases |-> releasesScore(OrZero(repo.releases))]
    \* details: readmeScore.toFixed(1) in tenths, scores.codeOfConduct, releaseCount
    IN  [score |-> sub.readme + sub.contributing + sub.codeOfConduct + sub.releases,
         details |-> [readme |-> (10 * sub.readme) \div One,
                      coc |-> sub.codeOfConduct \div One,
                      releases |-> OrZero(repo.releases)],
         breakdown |-> sub]

\* monthDays: the length in days of the three calendar months before t
scoreMaintenance(repo, t, monthDays) ==
    LET hasPush == IsDefined(repo.pushedAt)
        tHour == t \div HourMs
        \* Math.floor((now - lastCommit) / (1000 * 60 * 60 * 24))
        daysSinceLastCommit == IF hasPush THEN (tHour - Get(repo.pushedAt)) \div 24 ELSE 0
        recent == IF hasPush /\ daysSinceLastCommit <= 30 THEN One
                  ELSE IF hasPush /\ daysSinceLastCommit <= 90 THEN One \div 2
                  ELSE 0
        threeMonthsAgo == tHour - monthDays * 24
        nodes == IF IsDefined(repo.history) THEN Get(repo.history) ELSE <<>>
        recentCommits == Cardinality({i \in 1..Len(nodes) :
                                          nodes[i].committedDate > threeMonthsAgo})
        \* Math.min((recentCommits / 12) / 2, 1)
        frequency == Min((One * recentCommits) \div 24, One)
        openIssues == OrZero(repo.openIssues)
        closedIssues == OrZero(repo.closedIssues)
        totalIssues == openIssues + closedIssues
        issueManagement == IF totalIssues > 0
                           THEN (One * closedIssues) \div totalIssues
                           ELSE One \div 2
        openPRs == OrZero(repo.openPRs)
        mergedPRs == OrZero(repo.mergedPRs)
        totalPRs == openPRs + mergedPRs
        prManagement == IF totalPRs > 0
                        THEN (One * mergedPRs) \div totalPRs
                        ELSE One \div 2
        sub == [recentCommits |-> recent, commitFrequency |-> frequency,
                   issueManagement |-> issueManagement, prManagement |-> prManagement]
    \* details: daysSinceLastCommit (Infinity without pushedAt) and
    \* weeklyCommits.toFixed(1) in tenths
    IN  [score |-> recent + frequency + issueManagement + prManagement,
         details |-> [daysSinceLastCommit |->
                          IF hasPush THEN Some(daysSinceLastCommit) ELSE Undefined,
                      weeklyCommits |-> (2 * 10 * recentCommits + 12) \div (2 * 12)],
         breakdown |-> sub]

\* workflowData?.repository?.object?.entries?.length > 0
hasWorkflows(workflowData) ==
    /\ IsDefined(workflowData)
    /\ IsDefined(Get(workflowData).entries)
    /\ Get(Get(workflowData).entries) > 0

\* a quality scorer that grants the build-status half point unconditionally
scoreQualityPartialCredit(workflowData) ==
    LET sub == [ciPipeline |-> IF hasWorkflows(workflowData) THEN One ELSE 0,
                testCoverage |-> 0,
                linting |-> 0,
                buildStatus |-> One \div 2]
    IN  [score |-> sub.ciPipeline + sub.testCoverage + sub.linting + sub.buildStatus,
         details |-> [ci |-> hasWorkflows(workflowData),
                      workflows |-> IF hasWorkflows(workflowData)
                                    THEN Get(Get(workflowData).entries) ELSE 0],
         breakdown |-> sub]

\* a quality scorer whose build-status sub-score is a full point
scoreQualityFullBuild(workflowData) ==
    LET sub == [ciPipeline |-> IF hasWorkflows(workflowData) THEN One ELSE 0,
                testCoverage |-> 0,
                linting |-> 0,
                buildStatus |-> IF hasWorkflows(workflowData) THEN One ELSE 0]
    IN  [score |-> sub.ciPipeline + sub.testCoverage + sub.linting + sub.buildStatus,
         details |-> [ci |-> hasWorkflows(workflowData),
                      workflows |-> IF hasWorkflows(workflowData)
                                    THEN Get(Get(workflowData).entries) ELSE 0],
         breakdown |-> sub]

scoreQuality(workflowData) ==
    LET sub == [ciPipeline |-> IF hasWorkflows(workflowData) THEN One ELSE 0,
                   testCoverage |-> 0,
                   linting |-> 0,
                   buildStatus |-> IF hasWorkflows(workflowData) THEN One \div 2 ELSE 0]
    IN  [score |-> sub.ciPipeline + sub.testCoverage + sub.linting
                   + sub.buildStatus,
         details |-> [ci |-> hasWorkflows(workflowData),
                      workflows |-> IF hasWorkflows(workflowData)
                                    THEN Get(Get(workflowData).entries) ELSE 0],
         breakdown |-> sub]

\* author.user?.login || author.email || author.name; the empty string is falsy
identifier(author) ==
    IF Len(author.login) > 0 THEN author.login
    ELSE IF Len(author.email) > 0 THEN author.email
    ELSE author.name

\* a contributor count that tells identifiers apart by letter case
contributorCountCaseSensitive(history) ==
    IF ~IsDefined(history) THEN 1
    ELSE LET nodes == Get(history)
             uniqueContributors ==
                 {identifier(Get(nodes[i].author)) :
                     i \in {j \in 1..Len(nodes) :
                               /\ IsDefined(nodes[j].author)
                               /\ Len(identifier(Get(nodes[j].author))) > 0}}
         IN  Max(Cardinality(uniqueContributors), 1)

contributorCount(history) ==
    IF ~IsDefined(history) THEN 1
    ELSE LET nodes == Get(history)
             uniqueContributors ==
                 {toLowerCase(identifier(Get(nodes[i].author))) :
                     i \in {j \in 1..Len(nodes) :
                               /\ IsDefined(nodes[j].author)
                               /\ Len(identifier(Get(nodes[j].author))) > 0}}
         IN  Max(Cardinality(uniqueContributors), 1)

scoreCommunity(repo) ==
    LET sub ==
            [contributors |-> normalizeLog(contributorCount(repo.history), 1, 50),
             discussions |-> IF repo.hasDiscussionsEnabled \/ repo.hasWikiEnabled
                             THEN One ELSE 0,
             responseTime |-> One \div 2,
             communityHealth |-> IF repo.codeOfConduct THEN One ELSE 0]
    IN  [score |-> sub.contributors + sub.discussions + sub.responseTime
                   + sub.communityHealth,
         details |-> [contributors |-> contributorCount(repo.history),
                      discussions |-> repo.hasDiscussionsEnabled],
         breakdown |-> sub]

scorePopularity(repo) ==
    LET sub == [stars |-> normalizeLog(OrZero(repo.stars), 0, 1000),
                   forks |-> normalizeLog(OrZero(repo.forks), 0, 100),
                   watchers |-> normalizeLinear(OrZero(repo.watchers), 0, 50),
                   downloads |-> One \div 2]
    IN  [score |-> sub.stars + sub.forks + sub.watchers + sub.downloads,
         details |-> [stars |-> OrZero(repo.stars), forks |-> OrZero(repo.forks),
                      watchers |-> OrZero(repo.watchers)],
         breakdown |-> sub]

\* a security scorer without the neutral half point for dependency health
scoreSecurityNoPlaceholder(repo) ==
    LET sub == [vulnerabilityAlerts |-> IF repo.hasVulnerabilityAlertsEnabled
                                           THEN One ELSE 0,
                   dependencyHealth |-> 0,
                   signedCommits |-> 0,
                   securityPractices |-> IF repo.securityPolicyUrl THEN One ELSE 0]
    IN  [score |-> sub.vulnerabilityAlerts + sub.dependencyHealth
                   + sub.signedCommits + sub.securityPractices,
         details |-> [alerts |-> repo.hasVulnerabilityAlertsEnabled],
         breakdown |-> sub]

scoreSecurity(repo) ==
    LET sub == [vulnerabilityAlerts |-> IF repo.hasVulnerabilityAlertsEnabled
                                           THEN One ELSE 0,
                   dependencyHealth |-> One \div 2,
                   signedCommits |-> 0,
                   securityPractices |-> IF repo.securityPolicyUrl THEN One ELSE 0]
    IN  [score |-> sub.vulnerabilityAlerts + sub.dependencyHealth
                   + sub.signedCommits + sub.securityPractices,
         details |-> [alerts |-> repo.hasVulnerabilityAlertsEnabled],
         breakdown |-> sub]

\* calculateRepositoryScore(repoData, workflowData) evaluated at time t
calculateRepositoryScore(repoData, workflowData, t, monthDays) ==
    LET repo == Get(repoData.repository)
        cat == [documentation |-> scoreDocumentation(repo),
                maintenance |-> scoreMaintenance(repo, t, monthDays),
                quality |-> scoreQuality(workflowData),
                community |-> scoreCommunity(repo),
                popularity |-> scorePopularity(repo),
                security |-> scoreSecurity(repo)]
        \* sum of score_i * weight_i, in units of 1 / (4 * One * 100)
        weighted == cat.documentation.score * CATEGORY_WEIGHTS.documentation
                    + cat.maintenance.score * CATEGORY_WEIGHTS.maintenance
                    + cat.quality.score * CATEGORY_WEIGHTS.quality
                    + cat.community.score * CATEGORY_WEIGHTS.community
                    + cat.popularity.score * CATEGORY_WEIGHTS.popularity
                    + cat.security.score * CATEGORY_WEIGHTS.security
        finalScore == RoundTenths(weighted, 4 * One * 100)
    IN  [score |-> Min(finalScore, 100),
         breakdown |-> [c \in Categories |->
                           [score |-> RoundTenths(cat[c].score, 4 * One),
                            details |-> cat[c].details,
                            weight |-> CATEGORY_WEIGHTS[c]]],
         metadata |-> [weights |-> CATEGORY_WEIGHTS, calculatedAt |-> t]]

(***************************************************************************)
(* What GitHub answers.  UserResponse is the answer of GET /user for a     *)
(* token: the HTTP status and the x-oauth-scopes header split at ",".      *)
(***************************************************************************)
Tokens == {"ghp_repo", "ghp_wide", "ghp_gist", "github_pat_none", "ghp_revoked"}

UserResponse(token) ==
    CASE token = "ghp_repo" -> [status |-> 200, header |-> <<"repo">>]
      [] token = "ghp_wide" -> [status |-> 200, header |-> <<"Public_Repo", " gist">>]
      [] token = "ghp_gist" -> [status |-> 200, header |-> <<"gist">>]
      [] token = "github_pat_none" -> [status |-> 200, header |-> <<"">>]
      [] OTHER -> [status |-> 401, header |-> <<"">>]

\* s.trim().toLowerCase() on the header entries above
TrimLower(s) ==
    CASE s = "Public_Repo" -> "public_repo"
      [] s = " gist" -> "gist"
      [] OTHER -> s

SeqMap(Op(_), seq) == [i \in 1..Len(seq) |-> Op(seq[i])]
Includes(seq, x) == \E i \in 1..Len(seq) : seq[i] = x

\* lib/github.js checkScopes: [threw, error, ok, scopes, extras]
\* netOk = FALSE: fetch itself rejects
checkScopes(token, netOk) ==
    LET res == UserResponse(token)
        NonEmpty(x) == x # ""
        scopes == SelectSeq(SeqMap(TrimLower, res.header), NonEmpty)
        NotAllowed(x) == x \notin {"repo", "public_repo"}
        extras == SelectSeq(scopes, NotAllowed)
        failed(msg) == [threw |-> TRUE, error |-> msg, ok |-> FALSE,
                        scopes |-> <<>>, extras |-> <<>>]
    IN  IF ~netOk THEN failed("Failed to validate token")
        ELSE IF res.status = 401 THEN failed("Invalid GitHub token")
        ELSE IF res.status = 403 THEN failed("Token access forbidden")
        ELSE IF res.status # 200 THEN failed("GitHub API error")
        ELSE [threw |-> FALSE, error |-> "", ok |-> Len(extras) = 0,
              scopes |-> scopes, extras |-> extras]

(***************************************************************************)
(* Upstream repository data                                                *)
(***************************************************************************)
NoAuthor == [login |-> <<>>, email |-> <<>>, name |-> <<>>]

SnapA ==
    [readme |-> Some([length |-> 600, sections |-> 2, fences |-> 2, links |-> 2, badges |-> 1]),
     contributing |-> Undefined,
     codeOfConduct |-> TRUE,
     releases |-> Some(3),
     pushedAt |-> Some(0),
     history |-> Some(<<[committedDate |-> 0,
                         author |-> Some([login |-> <<"A">>, email |-> <<>>, name |-> <<"a">>])],
                        [committedDate |-> 0,
                         author |-> Some([login |-> <<>>, email |-> <<"a">>, name |-> <<>>])],
                        [committedDate |-> 0, author |-> Undefined]>>),
     openIssues |-> Some(1), closedIssues |-> Some(2),
     openPRs |-> Undefined, mergedPRs |-> Some(0),
     stars |-> Some(10), forks |-> Some(100), watchers |-> Some(5),
     hasDiscussionsEnabled |-> FALSE, hasWikiEnabled |-> TRUE,
     hasVulnerabilityAlertsEnabled |-> FALSE,
     securityPolicyUrl |-> TRUE]

Snapshots == {SnapA}

\* what the repository query resolves to (undefined repoData, a missing
\* repository, or a repository with its rateLimit)
RepoResponses ==
    {Undefined, Some([repository |-> Undefined, rateLimit |-> Undefined])}
    \cup {Some([repository |-> Some(snap), rateLimit |-> rl]) :
             snap \in Snapshots, rl \in {Some(4999)}}

\* what the repository query rejects with
RepoErrors == {"Not Found", "API rate limit exceeded"}

\* what the workflow query resolves to; entries is the number of entries of
\* repository.object.entries, undefined when any link of the chain is missing
WorkflowResponses ==
    {Some([entries |-> Undefined]), Some([entries |-> Some(2)])}

\* the shortest and the longest three consecutive calendar months, in days
\* (setMonth(getMonth() - 3))
ThreeMonthsDays == {89, 92}

(***************************************************************************)
(* GitHubScorerService (lib/GitScore-Copilot-service.js) and handleSubmit  *)
(* (pages/index.js)                                                        *)
(***************************************************************************)
ClientProcs == {"p1"}

\* one run of handleSubmit.  repoQ, wfQ: "none" (not called), "threw" (the
\* fetcher threw before it issued its query), "pending", "resolved", "rejected".
\* repoN, wfN: how many times the run has sent each query to GitHub.
\* entry, client: the stored entry and the installed client when calculateScore
\* was entered; wrote: what cacheScore returned
IdleCall ==
    [pc |-> "idle", owner |-> <<>>, repo |-> <<>>,
     repoQ |-> "none", wfQ |-> "none", repoN |-> 0, wfN |-> 0,
     client |-> Undefined, entry |-> "none", wrote |-> FALSE,
     repoData |-> Undefined, wfData |-> Undefined,
     result |-> Undefined, error |-> ""]

\* the entry stored under the key of owner/repo at time t: "unavailable"
\* (localStorage cannot be read), "none", "corrupt" (not an object with a
\* timestamp), "fresh" (younger than one hour), "expired"
EntryState(store, owner, repo, t, storageOk) ==
    LET key == CacheKey(owner, repo)
    IN  IF ~storageOk THEN "unavailable"
        ELSE IF key \notin DOMAIN store THEN "none"
        ELSE IF store[key].kind # "object" \/ "timestamp" \notin DOMAIN store[key].value
        THEN "corrupt"
        ELSE IF t - store[key].value.timestamp < LOCAL_TTL_MS THEN "fresh"
        ELSE "expired"

\* an Error of initialize: its message and the scopes the message lists
NoError == [message |-> "", scopes |-> <<>>]
NoInit == [st |-> "none", token |-> "", error |-> NoError]

NotInitializedError == "Service not initialized with GitHub token"
NotFoundError == "Repository not found"

\* `Current scopes: ${scopes.length > 0 ? scopes.join(', ') : 'none'}`
CurrentScopes(scopes) == IF Len(scopes) > 0 THEN scopes ELSE <<"none">>

\* an initialize that refuses every token with scopes beyond the two allowed
initializeResumeMinimalOnly(token, netOk, gql, tv) ==
    LET r == checkScopes(token, netOk)
        validation == [isValid |-> TRUE,
                       hasExtraPermissions |-> ~r.ok /\ Len(r.extras) > 0,
                       scopes |-> r.scopes,
                       extras |-> r.extras,
                       hasMinimalPermissions |-> r.ok]
        hasRequiredPermissions ==
            (Includes(r.scopes, "repo") \/ Includes(r.scopes, "public_repo")) /\ r.ok
    IN  IF r.threw
        THEN [threw |-> TRUE, githubGraphQL |-> gql, tokenValidation |-> tv,
              error |-> [message |-> r.error, scopes |-> <<>>]]
        ELSE IF ~hasRequiredPermissions
        THEN [threw |-> TRUE, githubGraphQL |-> gql,
              tokenValidation |-> Some([validation EXCEPT !.isValid = FALSE]),
              error |-> [message |-> "Token must have 'repo' or 'public_repo' permissions",
                         scopes |-> CurrentScopes(r.scopes)]]
        ELSE [threw |-> FALSE, githubGraphQL |-> Some(token),
              tokenValidation |-> Some(validation), error |-> NoError]

\* initialize from the return of checkScopes on, token being non-empty:
\* [threw, githubGraphQL, tokenValidation, error]
initializeResume(token, netOk, gql, tv) ==
    LET r == checkScopes(token, netOk)
        validation == [isValid |-> TRUE,
                       hasExtraPermissions |-> ~r.ok /\ Len(r.extras) > 0,
                       scopes |-> r.scopes,
                       extras |-> r.extras,
                       hasMinimalPermissions |-> r.ok]
        hasRequiredPermissions ==
            Includes(r.scopes, "repo") \/ Includes(r.scopes, "public_repo")
    IN  IF r.threw
        THEN [threw |-> TRUE, githubGraphQL |-> gql, tokenValidation |-> tv,
              error |-> [message |-> r.error, scopes |-> <<>>]]
        ELSE IF ~hasRequiredPermissions
        THEN [threw |-> TRUE, githubGraphQL |-> gql,
              tokenValidation |-> Some([validation EXCEPT !.isValid = FALSE]),
              error |-> [message |-> "Token must have 'repo' or 'public_repo' permissions",
                         scopes |-> CurrentScopes(r.scopes)]]
        ELSE [threw |-> FALSE, githubGraphQL |-> Some(token),
              tokenValidation |-> Some(validation), error |-> NoError]

\* the object calculateScore returns on a cache hit
cachedResult(cached, t) ==
    Spread(cached, [cached |-> TRUE, cacheAge |-> (t - cached.timestamp) \div 60000])

\* { owner, repo, ...scoreResult, cached: false, generatedAt, rateLimit }
responseData(owner, repo, scoreResult, repoData, t) ==
    Spread(Spread([owner |-> owner, repo |-> repo], scoreResult),
           [cached |-> FALSE, generatedAt |-> t, rateLimit |-> repoData.rateLimit])

\* fetchRepositoryData up to its first await: "throws" or "issued"
fetchRepositoryDataStart(gql) == IF ~IsDefined(gql) THEN "throws" ELSE "issued"

\* fetchWorkflowData up to its first await: "throws" or "issued"
fetchWorkflowDataStart(gql) == IF ~IsDefined(gql) THEN "throws" ELSE "issued"

\* !repoData?.repository
repositoryMissing(repoData) ==
    ~IsDefined(repoData) \/ ~IsDefined(Get(repoData).repository)

\* a calculateScore that awaits the repository before it asks for the workflows
calculateScoreStartSequential(c, owner, repo, store, gql, t, storageOk) ==
    LET got == getCachedScore(store, owner, repo, t, storageOk)
        base == [c EXCEPT !.owner = owner, !.repo = repo, !.client = gql,
                          !.entry = EntryState(store, owner, repo, t, storageOk)]
    IN  IF got.threw
        THEN [base EXCEPT !.pc = "done", !.error = "Cache retrieval error"]
        ELSE IF IsDefined(got.value)
        THEN [base EXCEPT !.pc = "done",
                          !.result = Some(cachedResult(Get(got.value), t))]
        ELSE IF fetchRepositoryDataStart(gql) = "throws"
        THEN [base EXCEPT !.pc = "done", !.error = NotInitializedError,
                          !.repoQ = "threw"]
        ELSE [base EXCEPT !.pc = "fetching", !.repoQ = "pending",
                          !.repoN = c.repoN + 1]

\* calculateScore from its entry to its first await (or return):
\* the new value of call[p]
calculateScoreStart(c, owner, repo, store, gql, t, storageOk) ==
    LET got == getCachedScore(store, owner, repo, t, storageOk)
        base == [c EXCEPT !.owner = owner, !.repo = repo, !.client = gql,
                          !.entry = EntryState(store, owner, repo, t, storageOk)]
    IN  IF got.threw
        THEN [base EXCEPT !.pc = "done", !.error = "Cache retrieval error"]
        ELSE IF IsDefined(got.value)
        THEN [base EXCEPT !.pc = "done",
                          !.result = Some(cachedResult(Get(got.value), t))]
        ELSE IF fetchRepositoryDataStart(gql) = "throws"
        THEN [base EXCEPT !.pc = "done", !.error = NotInitializedError,
                          !.repoQ = "threw",
                          !.wfQ = IF fetchWorkflowDataStart(gql) = "issued"
                                  THEN "pending" ELSE "threw",
                          !.wfN = IF fetchWorkflowDataStart(gql) = "issued"
                                  THEN c.wfN + 1 ELSE c.wfN]
        ELSE IF fetchWorkflowDataStart(gql) = "throws"
        THEN [base EXCEPT !.pc = "done", !.error = NotInitializedError,
                          !.repoQ = "pending", !.repoN = c.repoN + 1, !.wfQ = "threw"]
        ELSE [base EXCEPT !.pc = "fetching", !.repoQ = "pending", !.wfQ = "pending",
                          !.repoN = c.repoN + 1, !.wfN = c.wfN + 1]

\* a continuation that ends the call for a missing repository without throwing
afterPromiseAllSilent(c) ==
    IF repositoryMissing(c.repoData)
    THEN [c EXCEPT !.pc = "done", !.wfData = Undefined]
    ELSE [c EXCEPT !.pc = "importing"]

\* the continuation of calculateScore once Promise.all has resolved
afterPromiseAll(c) ==
    IF repositoryMissing(c.repoData)
    THEN [c EXCEPT !.pc = "done", !.error = NotFoundError, !.wfData = Undefined]
    ELSE [c EXCEPT !.pc = "importing"]

\* handleSubmit can run whenever no submit of the page is loading
Ready(p) == call[p].pc \in {"idle", "done"}

\* handleSubmit without a token: setError and return
SubmitNoToken(p) ==
    /\ Ready(p)
    /\ call' = [call EXCEPT ![p] = [IdleCall EXCEPT
                   !.pc = "done", !.error = "Please enter your GitHub token first"]]
    /\ UNCHANGED <<now, ticks, githubGraphQL, tokenValidation, localStorage, init,
                   serverVars, side, scorerVars>>

\* handleSubmit: initialize(token) is started and not awaited, then
\* calculateScore runs to its first await
Submit(p, owner, repo, token, storageOk) ==
    /\ Ready(p)
    /\ init[p].st # "pending"
    /\ init' = [init EXCEPT ![p] = [st |-> "pending", token |-> token, error |-> NoError]]
    /\ call' = [call EXCEPT ![p] =
                   calculateScoreStart(IdleCall, owner, repo, localStorage,
                                       githubGraphQL, now, storageOk)]
    /\ UNCHANGED <<now, ticks, githubGraphQL, tokenValidation, localStorage,
                   serverVars, side, scorerVars>>

\* the scope check of a pending initialize settles and initialize resumes
InitSettle(p, netOk) ==
    /\ init[p].st = "pending"
    /\ LET r == initializeResume(init[p].token, netOk, githubGraphQL, tokenValidation)
       IN  /\ githubGraphQL' = r.githubGraphQL
           /\ tokenValidation' = r.tokenValidation
           /\ init' = [init EXCEPT ![p] = [st |-> IF r.threw THEN "failed" ELSE "ok",
                                            token |-> "", error |-> r.error]]
    /\ UNCHANGED <<now, ticks, localStorage, call, serverVars, side, scorerVars>>

\* the repository query resolves
RepoResolve(p, data) ==
    /\ call[p].pc = "fetching"
    /\ call[p].repoQ = "pending"
    /\ LET c == [call[p] EXCEPT !.repoQ = "resolved", !.repoData = data]
       IN  call' = [call EXCEPT ![p] = IF c.wfQ = "pending" THEN c ELSE afterPromiseAll(c)]
    /\ UNCHANGED <<now, ticks, githubGraphQL, tokenValidation, localStorage, init,
                   serverVars, side, scorerVars>>

\* a rejection handler that sends the repository query a second time when
\* GitHub answers with its rate limit
RepoRejectRetry(p, err) ==
    /\ call[p].pc = "fetching"
    /\ call[p].repoQ = "pending"
    /\ call' = [call EXCEPT ![p] =
                   IF err = "API rate limit exceeded" /\ call[p].repoN < 2
                   THEN [call[p] EXCEPT !.repoN = call[p].repoN + 1]
                   ELSE [call[p] EXCEPT !.repoQ = "rejected", !.pc = "done", !.error = err,
                                        !.wfData = Undefined]]
    /\ UNCHANGED <<now, ticks, githubGraphQL, tokenValidation, localStorage, init,
                   serverVars, side, scorerVars>>

\* the repository query rejects: Promise.all rejects, calculateScore rejects
RepoReject(p, err) ==
    /\ call[p].pc = "fetching"
    /\ call[p].repoQ = "pending"
    /\ call' = [call EXCEPT ![p].repoQ = "rejected", ![p].pc = "done", ![p].error = err,
                             ![p].wfData = Undefined]
    /\ UNCHANGED <<now, ticks, githubGraphQL, tokenValidation, localStorage, init,
                   serverVars, side, scorerVars>>

\* the workflow query resolves, or rejects and fetchWorkflowData returns null
WorkflowSettle(p, data) ==
    /\ call[p].pc = "fetching"
    /\ call[p].wfQ = "pending"
    /\ LET c == [call[p] EXCEPT !.wfQ = "resolved", !.wfData = data]
       IN  call' = [call EXCEPT ![p] = IF c.repoQ = "pending" THEN c ELSE afterPromiseAll(c)]
    /\ UNCHANGED <<now, ticks, githubGraphQL, tokenValidation, localStorage, init,
                   serverVars, side, scorerVars>>

\* import("./scoring.js") resolves: score, cache, return
ScoreAndCache(p, storageOk, monthDays) ==
    /\ call[p].pc = "importing"
    /\ LET c == call[p]
           scoreResult == calculateRepositoryScore(Get(c.repoData), c.wfData, now, monthDays)
           data == responseData(c.owner, c.repo, scoreResult, Get(c.repoData), now)
           put == cacheScore(localStorage, c.owner, c.repo, data, now, storageOk)
       IN  /\ localStorage' = put.store
           /\ call' = [call EXCEPT ![p].pc = "done",
                          ![p].wfData = Undefined,
                          ![p].wrote = put.ok,
                          ![p].result = IF put.threw THEN Undefined ELSE Some(data),
                          ![p].error = IF put.threw THEN "Cache storage error" ELSE ""]
    /\ UNCHANGED <<now, ticks, githubGraphQL, tokenValidation, init, serverVars, side, scorerVars>>

\* time passes
ClientSteps == {1, LOCAL_TTL_MS - 1}

Tick(d) ==
    /\ ticks < MaxTicks
    /\ now' = now + d
    /\ ticks' = ticks + 1
    /\ UNCHANGED <<clientVars, serverVars, side, scorerVars>>

(***************************************************************************)
(* lib/mongodb.js: the scores collection of MongoDB                        *)
(***************************************************************************)
\* Collection.findOne({owner, repo}): the first matching document, or null
findOne(coll, owner, repo) ==
    LET hits == {i \in 1..Len(coll) : coll[i].owner = owner /\ coll[i].repo = repo}
    IN  IF hits = {} THEN Undefined
        ELSE Some(coll[CHOOSE i \in hits : \A j \in hits : i <= j])

\* Collection.replaceOne({owner, repo}, replacement, {upsert: true}): the first
\* matching document is replaced; when none matches the replacement is inserted
replaceOne(coll, owner, repo, replacement) ==
    LET hits == {i \in 1..Len(coll) : coll[i].owner = owner /\ coll[i].repo = repo}
    IN  IF hits = {} THEN Append(coll, replacement)
        ELSE [coll EXCEPT ![CHOOSE i \in hits : \A j \in hits : i <= j] = replacement]

\* how an attempt to connect ends
ConnectOutcomes == {"ok", "connectFails", "createIndexFails"}

\* connectToDatabase: [database, db, ttlIndex]; database is db or null
connectToDatabase(dbNow, ttlNow, environment, outcome) ==
    IF dbNow # "none" THEN [database |-> Some(dbNow), db |-> dbNow, ttlIndex |-> ttlNow]
    ELSE IF ~environment.MONGODB_URI
    THEN [database |-> Undefined, db |-> dbNow, ttlIndex |-> ttlNow]
    ELSE IF outcome = "connectFails"
    THEN [database |-> Undefined, db |-> dbNow, ttlIndex |-> ttlNow]
    \* db is assigned before createIndex is awaited
    ELSE IF outcome = "createIndexFails"
    THEN [database |-> Undefined, db |-> "GitData", ttlIndex |-> ttlNow]
    ELSE [database |-> Some("GitData"), db |-> "GitData", ttlIndex |-> TRUE]

\* getCachedScore of lib/mongodb.js: [value, db, ttlIndex]
\* dbOk = FALSE: the query itself fails
mongoGetCachedScore(coll, dbNow, ttlNow, environment, owner, repo, outcome, dbOk) ==
    LET conn == connectToDatabase(dbNow, ttlNow, environment, outcome)
    IN  [value |-> IF ~IsDefined(conn.database) \/ ~dbOk THEN Undefined
                   ELSE findOne(coll, toLowerCase(owner), toLowerCase(repo)),
         db |-> conn.db, ttlIndex |-> conn.ttlIndex]

\* the replacement document cacheScore builds
\* { owner: lower, repo: lower, ...scoreData, createdAt, updatedAt }
cacheDocument(owner, repo, scoreData, t) ==
    Spread(Spread([owner |-> toLowerCase(owner), repo |-> toLowerCase(repo)], scoreData),
           [createdAt |-> t, updatedAt |-> t])

\* cacheScore of lib/mongodb.js: [ok, scores, db, ttlIndex]
mongoCacheScore(coll, dbNow, ttlNow, environment, owner, repo, scoreData, t, outcome, dbOk) ==
    LET conn == connectToDatabase(dbNow, ttlNow, environment, outcome)
    IN  IF ~IsDefined(conn.database) \/ ~dbOk
        THEN [ok |-> FALSE, scores |-> coll, db |-> conn.db, ttlIndex |-> conn.ttlIndex]
        ELSE [ok |-> TRUE,
              scores |-> replaceOne(coll, toLowerCase(owner), toLowerCase(repo),
                                    cacheDocument(owner, repo, scoreData, t)),
              db |-> conn.db, ttlIndex |-> conn.ttlIndex]

\* MongoDB's TTL monitor: a background pass that deletes the documents whose
\* createdAt is at least expireAfterSeconds old; it runs only now and then
ttlExpired(doc, t) == t - doc.createdAt >= MongoTtlMs

TTLMonitor ==
    /\ ttlIndex
    /\ \E i \in 1..Len(scores) : ttlExpired(scores[i], now)
    /\ LET Keep(doc) == ~ttlExpired(doc, now)
       IN  scores' = SelectSeq(scores, Keep)
    /\ UNCHANGED <<now, ticks, clientVars, env, db, ttlIndex, req, side, scorerVars>>

(***************************************************************************)
(* pages/api/score/[owner]/[repo].js and the fetchers of lib/github.js     *)
(***************************************************************************)
Handlers == {"h1"}

IdleReq ==
    [pc |-> "idle", owner |-> <<>>, repo |-> <<>>,
     repoQ |-> "none", wfQ |-> "none", repoN |-> 0, wfN |-> 0,
     repoData |-> Undefined, wfData |-> Undefined, wrote |-> FALSE,
     status |-> 0, body |-> Undefined, error |-> ""]

\* an error message as the list of its parts; msg.includes(part)
FetchFailed(err) == <<"Failed to fetch repository data: ", err>>

\* the catch block of the handler: the status for an error message
errorStatus(message) ==
    IF Includes(message, "Not Found") THEN 404
    ELSE IF Includes(message, "rate limit") THEN 429
    ELSE 500

errorText(status) ==
    IF status = 404 THEN NotFoundError
    ELSE IF status = 429 THEN "GitHub API rate limit exceeded"
    ELSE "Failed to calculate score"

respond(r, status, body, error) ==
    [r EXCEPT !.pc = "done", !.status = status, !.body = body, !.error = error,
              !.wfData = Undefined]

\* the response to a cache hit
cachedResponse(doc, t) ==
    Spread(doc, [cached |-> TRUE, cacheAge |-> (t - doc.createdAt) \div 60000])

ReqReady(h) == req[h].pc \in {"idle", "done"}

\* a request the handler refuses before it looks at the cache
HandlerRefuse(h, method, owner, repo) ==
    /\ ReqReady(h)
    /\ method # "GET" \/ Len(owner) = 0 \/ Len(repo) = 0 \/ ~env.GITHUB_TOKEN
    /\ LET r == [IdleReq EXCEPT !.owner = owner, !.repo = repo]
       IN  req' = [req EXCEPT ![h] =
                      IF method # "GET" THEN respond(r, 405, Undefined, "Method not allowed")
                      ELSE IF Len(owner) = 0 \/ Len(repo) = 0
                      THEN respond(r, 400, Undefined, "Owner and repo parameters are required")
                      ELSE respond(r, 500, Undefined, "GitHub token not configured")]
    /\ UNCHANGED <<now, ticks, clientVars, env, db, ttlIndex, scores, side, scorerVars>>

\* GET: the cache is consulted; a hit is answered, a miss starts both fetches
HandlerStart(h, owner, repo, outcome, dbOk) ==
    /\ ReqReady(h)
    /\ Len(owner) > 0 /\ Len(repo) > 0 /\ env.GITHUB_TOKEN
    /\ Len(scores) < MaxDocs
    \* an open connection is reused: no attempt to connect is made
    /\ db # "none" => outcome = "ok"
    /\ LET got == mongoGetCachedScore(scores, db, ttlIndex, env, owner, repo, outcome, dbOk)
           r == [IdleReq EXCEPT !.owner = owner, !.repo = repo]
       IN  /\ db' = got.db
           /\ ttlIndex' = got.ttlIndex
           /\ req' = [req EXCEPT ![h] =
                         IF IsDefined(got.value)
                         THEN respond(r, 200, Some(cachedResponse(Get(got.value), now)), "")
                         ELSE [r EXCEPT !.pc = "fetching", !.repoQ = "pending",
                                        !.wfQ = "pending", !.repoN = r.repoN + 1,
                                        !.wfN = r.wfN + 1]]
    /\ UNCHANGED <<now, ticks, clientVars, env, scores, side, scorerVars>>

\* a handler that empties the collection when the repository is missing
handlerFinishEvicting(r, coll, dbNow, ttlNow, environment, t, monthDays, outcome, dbOk) ==
    IF repositoryMissing(r.repoData)
    THEN [req |-> respond(r, 404, Undefined, NotFoundError),
          scores |-> <<>>, db |-> dbNow, ttlIndex |-> ttlNow]
    ELSE LET scoreResult == calculateRepositoryScore(Get(r.repoData), r.wfData, t, monthDays)
             data == responseData(r.owner, r.repo, scoreResult, Get(r.repoData), t)
             put == mongoCacheScore(coll, dbNow, ttlNow, environment, r.owner, r.repo,
                                    data, t, outcome, dbOk)
         IN  [req |-> [respond(r, 200, Some(data), "") EXCEPT !.wrote = put.ok],
              scores |-> put.scores, db |-> put.db, ttlIndex |-> put.ttlIndex]

\* the handler once Promise.all has resolved: 404, or score, cache and answer
\* [req, scores, db, ttlIndex]
handlerFinish(r, coll, dbNow, ttlNow, environment, t, monthDays, outcome, dbOk) ==
    IF repositoryMissing(r.repoData)
    THEN [req |-> respond(r, 404, Undefined, NotFoundError),
          scores |-> coll, db |-> dbNow, ttlIndex |-> ttlNow]
    ELSE LET scoreResult == calculateRepositoryScore(Get(r.repoData), r.wfData, t, monthDays)
             data == responseData(r.owner, r.repo, scoreResult, Get(r.repoData), t)
             put == mongoCacheScore(coll, dbNow, ttlNow, environment, r.owner, r.repo,
                                    data, t, outcome, dbOk)
         IN  [req |-> [respond(r, 200, Some(data), "") EXCEPT !.wrote = put.ok],
              scores |-> put.scores, db |-> put.db, ttlIndex |-> put.ttlIndex]

\* fetchRepositoryData resolves; Promise.all resolves once both have
HandlerRepoResolve(h, data) ==
    /\ req[h].pc = "fetching"
    /\ req[h].repoQ = "pending"
    /\ req' = [req EXCEPT ![h] =
                  [@ EXCEPT !.repoQ = "resolved", !.repoData = data,
                            !.pc = IF req[h].wfQ = "pending" THEN "fetching" ELSE "fetched"]]
    /\ UNCHANGED <<now, ticks, clientVars, env, db, ttlIndex, scores, side, scorerVars>>

\* fetchRepositoryData rethrows; the handler's catch answers
HandlerRepoReject(h, err) ==
    /\ req[h].pc = "fetching"
    /\ req[h].repoQ = "pending"
    /\ LET status == errorStatus(FetchFailed(err))
       IN  req' = [req EXCEPT ![h] =
                      respond([req[h] EXCEPT !.repoQ = "rejected"], status, Undefined,
                              errorText(status))]
    /\ UNCHANGED <<now, ticks, clientVars, env, db, ttlIndex, scores, side, scorerVars>>

\* fetchWorkflowData resolves, with null when the query failed
HandlerWorkflowSettle(h, data) ==
    /\ req[h].pc = "fetching"
    /\ req[h].wfQ = "pending"
    /\ req' = [req EXCEPT ![h] =
                  [@ EXCEPT !.wfQ = "resolved", !.wfData = data,
                            !.pc = IF req[h].repoQ = "pending" THEN "fetching" ELSE "fetched"]]
    /\ UNCHANGED <<now, ticks, clientVars, env, db, ttlIndex, scores, side, scorerVars>>

\* the rest of the handler after Promise.all: 404, or score, cache and answer
HandlerFinish(h, monthDays, outcome, dbOk) ==
    /\ req[h].pc = "fetched"
    /\ db # "none" => outcome = "ok"
    /\ \E fin \in {handlerFinish(req[h], scores, db, ttlIndex, env, now, monthDays,
                                  outcome, dbOk)} :
           /\ req' = [req EXCEPT ![h] = fin.req]
           /\ scores' = fin.scores
           /\ db' = fin.db
           /\ ttlIndex' = fin.ttlIndex
    /\ UNCHANGED <<now, ticks, clientVars, env, side, scorerVars>>

ServerSteps == {1, MongoTtlMs}

(***************************************************************************)
(* Initial state                                                           *)
(***************************************************************************)
\* what the browser's localStorage may hold when the page loads
InitialStorages ==
    {EmptyStorage}
    \cup {CacheKey(<<"a">>, <<"r">>) :> text :
             text \in {InvalidJsonText, NullJsonText, JSON_stringify([score |-> 85]),
                       JSON_stringify([score |-> 85, timestamp |-> 0])}}

Environments == [MONGODB_URI : BOOLEAN, GITHUB_TOKEN : BOOLEAN]

\* calculateRepositoryScore has not been called
ScorerIdle ==
    /\ snapshot = Undefined
    /\ listing = Undefined
    /\ scored = <<>>

ServerInit ==
    /\ db = "none"
    /\ ttlIndex = FALSE
    /\ scores = <<>>
    /\ req = [h \in Handlers |-> IdleReq]

ClientInit ==
    /\ githubGraphQL = Undefined
    /\ tokenValidation = Undefined
    /\ localStorage \in InitialStorages
    /\ call = [p \in ClientProcs |-> IdleCall]
    /\ init = [p \in ClientProcs |-> NoInit]

Init ==
    /\ now = 0
    /\ ticks = 0
    /\ ClientInit
    /\ ServerInit
    /\ env = [MONGODB_URI |-> TRUE, GITHUB_TOKEN |-> TRUE]
    /\ side = "page"
    /\ ScorerIdle

\* the repositories the page is asked to score
SubmitOwners == {<<"a">>}

Next ==
    \/ \E p \in ClientProcs : SubmitNoToken(p)
    \/ \E p \in ClientProcs, o \in SubmitOwners, r \in Repos, t \in Tokens, ok \in BOOLEAN :
           Submit(p, o, r, t, ok)
    \/ \E p \in ClientProcs, ok \in BOOLEAN : InitSettle(p, ok)
    \/ \E p \in ClientProcs, d \in RepoResponses : RepoResolve(p, d)
    \/ \E p \in ClientProcs, e \in RepoErrors : RepoReject(p, e)
    \/ \E p \in ClientProcs, d \in WorkflowResponses \cup {Undefined} : WorkflowSettle(p, d)
    \/ \E p \in ClientProcs, ok \in BOOLEAN, m \in ThreeMonthsDays : ScoreAndCache(p, ok, m)
    \/ \E d \in ClientSteps : Tick(d)

Spec == Init /\ [][Next]_vars

(***************************************************************************)
(* The API server: requests to /api/score/[owner]/[repo]                   *)
(***************************************************************************)
InitServer ==
    /\ now = 0
    /\ ticks = 0
    /\ githubGraphQL = Undefined
    /\ tokenValidation = Undefined
    /\ localStorage = EmptyStorage
    /\ call = [p \in ClientProcs |-> IdleCall]
    /\ init = [p \in ClientProcs |-> NoInit]
    /\ ServerInit
    /\ env \in Environments
    /\ side = "api"
    /\ ScorerIdle

Methods == {"GET", "POST"}

NextServer ==
    \/ \E h \in Handlers, m \in Methods, o \in Owners \cup {<<>>}, r \in Repos :
           HandlerRefuse(h, m, o, r)
    \/ \E h \in Handlers, o \in Owners, r \in Repos, c \in ConnectOutcomes, ok \in BOOLEAN :
           HandlerStart(h, o, r, c, ok)
    \/ \E h \in Handlers, d \in RepoResponses : HandlerRepoResolve(h, d)
    \/ \E h \in Handlers, e \in RepoErrors : HandlerRepoReject(h, e)
    \/ \E h \in Handlers, d \in WorkflowResponses \cup {Undefined} :
           HandlerWorkflowSettle(h, d)
    \/ \E h \in Handlers, m \in ThreeMonthsDays, c \in ConnectOutcomes, ok \in BOOLEAN :
           HandlerFinish(h, m, c, ok)
    \/ TTLMonitor
    \/ \E d \in ServerSteps : Tick(d)

SpecServer == InitServer /\ [][NextServer]_vars

(***************************************************************************)
(* Both deployments: an execution follows the page or the API route        *)
(***************************************************************************)
InitAll == Init \/ InitServer

NextAll ==
    \/ side = "page" /\ Next
    \/ side = "api" /\ NextServer

SpecAll == InitAll /\ [][NextAll]_vars

(***************************************************************************)
(* The page asked for repositories whose names contain "-": the token is   *)
(* valid, GitHub answers every query and localStorage works                *)
(***************************************************************************)
\* owner and repo as typed into the form
HyphenPairs ==
    {<<<<"a", "-", "b">>, <<"c">>>>,
     <<<<"a">>, <<"b", "-", "c">>>>,
     <<<<"a">>, <<"c">>>>}

InitKeys ==
    /\ now = 0
    /\ ticks = 0
    /\ ClientInit
    /\ localStorage = EmptyStorage
    /\ ServerInit
    /\ env = [MONGODB_URI |-> TRUE, GITHUB_TOKEN |-> TRUE]
    /\ side = "keys"
    /\ ScorerIdle

NextKeys ==
    \/ \E p \in ClientProcs, pair \in HyphenPairs :
           Submit(p, pair[1], pair[2], "ghp_repo", TRUE)
    \/ \E p \in ClientProcs : InitSettle(p, TRUE)
    \/ \E p \in ClientProcs, snap \in Snapshots :
           RepoResolve(p, Some([repository |-> Some(snap), rateLimit |-> Some(4999)]))
    \/ \E p \in ClientProcs, d \in WorkflowResponses \cup {Undefined} : WorkflowSettle(p, d)
    \/ \E p \in ClientProcs, m \in ThreeMonthsDays : ScoreAndCache(p, TRUE, m)
    \/ \E d \in ClientSteps : Tick(d)

SpecKeys == InitKeys /\ [][NextKeys]_vars

(***************************************************************************)
(* Two callers at once: two calculateScore calls of one page, or two        *)
(* requests of the API route, for the same owner and repository on a cold   *)
(* cache, with the same answers from GitHub                                 *)
(***************************************************************************)
RaceProcs == {"p1", "p2"}

RaceHandlers == {"h1", "h2"}

\* what GitHub answers to both callers
RaceRepoData == Some([repository |-> Some(SnapA), rateLimit |-> Some(4999)])

RaceWorkflowData == Some([entries |-> Some(2)])

InitRace ==
    /\ now = 0
    /\ ticks = 0
    /\ githubGraphQL = Undefined
    /\ tokenValidation = Undefined
    /\ localStorage = EmptyStorage
    /\ call = [p \in RaceProcs |-> IdleCall]
    /\ init = [p \in RaceProcs |-> NoInit]
    /\ db = "none"
    /\ ttlIndex = FALSE
    /\ scores = <<>>
    /\ req = [h \in RaceHandlers |-> IdleReq]
    /\ env = [MONGODB_URI |-> TRUE, GITHUB_TOKEN |-> TRUE]
    /\ side \in {"page", "api"}
    /\ ScorerIdle

NextRace ==
    \/ /\ side = "page"
       /\ \/ \E p \in RaceProcs, o \in SubmitOwners, r \in Repos :
                 Submit(p, o, r, "ghp_repo", TRUE)
          \/ \E p \in RaceProcs : InitSettle(p, TRUE)
          \/ \E p \in RaceProcs : RepoResolve(p, RaceRepoData)
          \/ \E p \in RaceProcs : WorkflowSettle(p, RaceWorkflowData)
          \/ \E p \in RaceProcs, m \in ThreeMonthsDays : ScoreAndCache(p, TRUE, m)
          \/ \E d \in ClientSteps : Tick(d)
    \/ /\ side = "api"
       /\ \/ \E h \in RaceHandlers, o \in Owners, r \in Repos : HandlerStart(h, o, r, "ok", TRUE)
          \/ \E h \in RaceHandlers : HandlerRepoResolve(h, RaceRepoData)
          \/ \E h \in RaceHandlers : HandlerWorkflowSettle(h, RaceWorkflowData)
          \/ \E h \in RaceHandlers, m \in ThreeMonthsDays : HandlerFinish(h, m, "ok", TRUE)
          \/ \E d \in ServerSteps : Tick(d)

SpecRace == InitRace /\ [][NextRace]_vars

(***************************************************************************)
(* lib/scoring.js on its own: calculateRepositoryScore is called on one    *)
(* snapshot and one workflow listing, at several points in time            *)
(***************************************************************************)
\* README texts by what the regular expressions measure: none, one just short
\* of the basic structure, basic structure only, and a complete one
Readmes ==
    {Undefined,
     Some([length |-> 500, sections |-> 2, fences |-> 0, links |-> 0, badges |-> 0]),
     Some([length |-> 501, sections |-> 2, fences |-> 1, links |-> 2, badges |-> 1]),
     Some([length |-> 600, sections |-> 2, fences |-> 2, links |-> 2, badges |-> 1])}

User(login) == Some([login |-> login, email |-> <<>>, name |-> <<>>])

\* commit histories; committedDate in hours, 0 being the start of the run
Histories ==
    {Undefined,
     Some(<<>>),
     Some(<<[committedDate |-> 0, author |-> User(<<"a">>)],
            [committedDate |-> 0 - 1, author |-> User(<<"b">>)],
            [committedDate |-> 0 - 89 * 24, author |-> User(<<"c">>)]>>),
     Some(<<[committedDate |-> 0, author |-> User(<<"A">>)],
            [committedDate |-> 0, author |-> User(<<"a">>)],
            [committedDate |-> 0, author |-> Undefined],
            [committedDate |-> 0, author |-> Some(NoAuthor)]>>),
     Some([i \in 1..25 |-> [committedDate |-> 0, author |-> User(<<"a">>)]])}

\* a repository with every optional field absent
BareRepo ==
    [readme |-> Undefined, contributing |-> Undefined, codeOfConduct |-> FALSE,
     releases |-> Undefined, pushedAt |-> Undefined, history |-> Undefined,
     openIssues |-> Undefined, closedIssues |-> Undefined,
     openPRs |-> Undefined, mergedPRs |-> Undefined,
     stars |-> Undefined, forks |-> Undefined, watchers |-> Undefined,
     hasDiscussionsEnabled |-> FALSE, hasWikiEnabled |-> FALSE,
     hasVulnerabilityAlertsEnabled |-> FALSE, securityPolicyUrl |-> FALSE]

\* a repository at or beyond every cap
FullRepo ==
    [readme |-> Some([length |-> 600, sections |-> 2, fences |-> 2, links |-> 2,
                      badges |-> 1]),
     contributing |-> Some(101), codeOfConduct |-> TRUE,
     releases |-> Some(5), pushedAt |-> Some(0),
     history |-> Some([i \in 1..25 |-> [committedDate |-> 0, author |-> User(<<"a">>)]]),
     openIssues |-> Some(0), closedIssues |-> Some(2),
     openPRs |-> Some(0), mergedPRs |-> Some(1),
     stars |-> Some(10000), forks |-> Some(100), watchers |-> Some(100),
     hasDiscussionsEnabled |-> TRUE, hasWikiEnabled |-> TRUE,
     hasVulnerabilityAlertsEnabled |-> TRUE, securityPolicyUrl |-> TRUE]

\* a repository whose every sub-score is at its lowest: open issues and pull
\* requests only, nothing closed or merged
FloorRepo ==
    [BareRepo EXCEPT !.openIssues = Some(1), !.closedIssues = Some(0),
                     !.openPRs = Some(1), !.mergedPRs = Some(0)]

LoginLetters == <<"a", "b", "c", "d", "e", "f", "g", "h">>

\* a repository whose every sub-score is at its highest: FullRepo with fifty
\* commits of fifty different users
TopRepo ==
    [FullRepo EXCEPT !.history =
        Some([i \in 1..50 |->
                 [committedDate |-> 0,
                  author |-> User(<<LoginLetters[((i - 1) \div 8) + 1],
                                    LoginLetters[((i - 1) % 8) + 1]>>)]])]

\* the snapshots scored: the two extremes, and SnapA varied in two or three
\* inputs of one category at a time
ScoringSnapshots ==
    {BareRepo, FullRepo, SnapA, [FullRepo EXCEPT !.releases = Some(3)], FloorRepo, TopRepo}
    \cup {[SnapA EXCEPT !.readme = rd, !.releases = rel] :
             rd \in Readmes,
             rel \in {Undefined, Some(0), Some(1), Some(2), Some(4), Some(5)}}
    \cup {[SnapA EXCEPT !.contributing = ct, !.codeOfConduct = coc] :
             ct \in {Undefined, Some(100), Some(101)}, coc \in BOOLEAN}
    \cup {[SnapA EXCEPT !.pushedAt = pa, !.history = h] :
             pa \in {Undefined, Some(0 - 30 * 24), Some(0 - 90 * 24)}, h \in Histories}
    \cup {[SnapA EXCEPT !.openIssues = oi, !.mergedPRs = mp] :
             oi \in {Undefined, Some(0)}, mp \in {Undefined, Some(3)}}
    \cup {[SnapA EXCEPT !.stars = st, !.watchers = wt] :
             st \in {Undefined, Some(0), Some(1000), Some(10000)},
             wt \in {Undefined, Some(25), Some(100)}}
    \cup {[SnapA EXCEPT !.forks = fk, !.hasWikiEnabled = wiki, !.securityPolicyUrl = sec] :
             fk \in {Undefined, Some(5)}, wiki \in BOOLEAN, sec \in BOOLEAN}

\* workflow data: null, no entries field, an empty listing, two workflow files
ScoringListings ==
    {Undefined, Some([entries |-> Undefined]), Some([entries |-> Some(0)]),
     Some([entries |-> Some(2)])}

InitScorer ==
    /\ now = 0
    /\ ticks = 0
    /\ ClientInit
    /\ localStorage = EmptyStorage
    /\ ServerInit
    /\ env = [MONGODB_URI |-> TRUE, GITHUB_TOKEN |-> TRUE]
    /\ side = "scorer"
    /\ snapshot \in {Some([repository |-> Some(snap), rateLimit |-> Undefined]) :
                        snap \in ScoringSnapshots}
    /\ listing \in ScoringListings
    /\ scored = <<>>

\* one call of calculateRepositoryScore(snapshot, listing); calls made at the
\* same instant see the same calendar
ScoreCall(monthDays) ==
    /\ Len(scored) < MaxScored
    /\ \A i \in 1..Len(scored) : scored[i].at = now => scored[i].monthDays = monthDays
    /\ scored' = Append(scored,
                        [at |-> now, monthDays |-> monthDays,
                         result |-> calculateRepositoryScore(Get(snapshot), listing, now,
                                                             monthDays)])
    /\ UNCHANGED <<now, ticks, clientVars, serverVars, side, snapshot, listing>>

\* a day passes between calls
ScorerSteps == {24 * HourMs}

NextScorer ==
    \/ \E m \in ThreeMonthsDays : ScoreCall(m)
    \/ \E d \in ScorerSteps : Tick(d)

SpecScorer == InitScorer /\ [][NextScorer]_vars

(***************************************************************************)
(* Properties of the client service                                        *)
(***************************************************************************)
\* a query that was sent to GitHub
Issued(q) == q \in {"pending", "resolved", "rejected"}

\* p's submit reached calculateScore / calculateScore has settled
Started(p) == call[p].pc # "idle" /\ Len(call[p].owner) > 0
Completed(p) == call[p].pc = "done" /\ Len(call[p].owner) > 0

\* calculateScore resolved with a result / with a result marked cached
Returned(p) == Completed(p) /\ IsDefined(call[p].result)
ReturnedCached(p) == Returned(p) /\ Get(call[p].result).cached
ReturnedFresh(p) == Returned(p) /\ ~Get(call[p].result).cached

\* localStorage holds the result p's call returned, stamped with the time of
\* its computation
StoreHolds(p) ==
    LET key == CacheKey(call[p].owner, call[p].repo)
        res == Get(call[p].result)
    IN  /\ key \in DOMAIN localStorage
        /\ localStorage[key] = JSON_stringify(WithField(res, "timestamp", res.generatedAt))

\* C1 as stated: the result is cached exactly when a fresh entry existed at
\* the start, and then no query is issued; in every other case both queries
\* are issued, the result is not cached and it is in the store when returned
C1_Original ==
    \A p \in ClientProcs : Completed(p) =>
        /\ ReturnedCached(p) <=> call[p].entry = "fresh"
        /\ call[p].entry = "fresh" => call[p].repoQ = "none" /\ call[p].wfQ = "none"
        /\ call[p].entry # "fresh" =>
              /\ Issued(call[p].repoQ) /\ Issued(call[p].wfQ)
              /\ Returned(p) => ~Get(call[p].result).cached /\ StoreHolds(p)

\* C1 (amended): the result is cached exactly when a fresh entry existed at the
\* start, and then no query is issued.  Otherwise both queries are issued when
\* a client is installed, and none is and the call rejects when no client is
\* installed; a returned result is then not cached, both queries resolved, and
\* the store holds it unless the localStorage write failed
C1_CacheFirst ==
    \A p \in ClientProcs : Started(p) =>
        /\ Completed(p) => (ReturnedCached(p) <=> call[p].entry = "fresh")
        /\ call[p].entry = "fresh" =>
              call[p].pc = "done" /\ call[p].repoQ = "none" /\ call[p].wfQ = "none"
        /\ call[p].entry # "fresh" /\ IsDefined(call[p].client) =>
              Issued(call[p].repoQ) /\ Issued(call[p].wfQ)
        /\ call[p].entry # "fresh" /\ ~IsDefined(call[p].client) =>
              /\ ~Issued(call[p].repoQ) /\ ~Issued(call[p].wfQ)
              /\ call[p].pc = "done" /\ call[p].result = Undefined
              /\ call[p].error = "Service not initialized with GitHub token"
        /\ ReturnedFresh(p) =>
              /\ call[p].repoQ = "resolved" /\ call[p].wfQ = "resolved"
              /\ call[p].wrote => StoreHolds(p)

\* a result computed by an earlier call is answered from the store
C1_Witness ==
    \E p \in ClientProcs :
        /\ ReturnedCached(p) /\ call[p].entry = "fresh"
        /\ HasField(Get(call[p].result), "generatedAt")

\* C2 as stated: an entry older than the TTL is absent, and a call that finds
\* only an expired entry refetches, recomputes and overwrites it
C2_Original ==
    /\ \A o \in Owners, r \in Repos :
           LET key == CacheKey(o, r)
           IN  (/\ key \in DOMAIN localStorage
                /\ localStorage[key].kind = "object"
                /\ HasField(localStorage[key].value, "timestamp")
                /\ now - localStorage[key].value.timestamp > 3600000)
               => getCachedScore(localStorage, o, r, now, TRUE).value = Undefined
    /\ \A p \in ClientProcs : Completed(p) /\ call[p].entry = "expired" =>
           /\ Issued(call[p].repoQ) /\ Issued(call[p].wfQ)
           /\ ReturnedFresh(p) /\ StoreHolds(p)

\* C2 (amended): an entry whose age has reached the TTL is absent; a call that
\* finds only such an entry never answers from it, issues both queries when a
\* client is installed, and a result it returns is freshly computed and, unless
\* the localStorage write failed, stored under a new timestamp
C2_ExpiredRecomputed ==
    /\ \A o \in Owners, r \in Repos :
           LET key == CacheKey(o, r)
           IN  (/\ key \in DOMAIN localStorage
                /\ localStorage[key].kind = "object"
                /\ HasField(localStorage[key].value, "timestamp")
                /\ now - localStorage[key].value.timestamp >= 3600000)
               => getCachedScore(localStorage, o, r, now, TRUE).value = Undefined
    /\ \A p \in ClientProcs : Started(p) /\ call[p].entry = "expired" =>
           /\ ~ReturnedCached(p)
           /\ IsDefined(call[p].client) => Issued(call[p].repoQ) /\ Issued(call[p].wfQ)
           /\ Returned(p) /\ call[p].wrote =>
                 /\ StoreHolds(p)
                 /\ now - Get(call[p].result).generatedAt < 3600000 =>
                       EntryState(localStorage, call[p].owner, call[p].repo, now, TRUE) = "fresh"

\* an expired entry was found, and the recomputed result replaced it
C2_Witness ==
    \E p \in ClientProcs :
        /\ ReturnedFresh(p) /\ call[p].entry = "expired"
        /\ call[p].wrote /\ StoreHolds(p)

\* C5 as stated, on the localStorage store: once cacheScore(o, r, X) has
\* succeeded, getCachedScore finds the entry under every spelling of o that
\* differs from o only in letter case
C5_Original ==
    \A p \in ClientProcs : ReturnedFresh(p) /\ call[p].wrote =>
        \A o \in Owners : toLowerCase(o) = toLowerCase(call[p].owner) =>
            IsDefined(getCachedScore(localStorage, o, call[p].repo,
                                     Get(call[p].result).generatedAt, TRUE).value)

\* C7: neither cache operation throws, whatever the store holds and whether or
\* not it can be accessed: getCachedScore answers null for an inaccessible
\* store or a corrupt entry, cacheScore answers false and leaves the store
\* alone; and a call whose queries resolved with a repository returns the
\* computed result with cached = false even when the write failed
C7_CacheFailuresContained ==
    /\ \A o \in Owners, r \in Repos, ok \in BOOLEAN :
           LET got == getCachedScore(localStorage, o, r, now, ok)
           IN  /\ ~got.threw
               /\ EntryState(localStorage, o, r, now, ok) \in {"unavailable", "corrupt"}
                     => got.value = Undefined
    /\ \A o \in Owners, r \in Repos :
           LET put == cacheScore(localStorage, o, r, [score |-> 85], now, FALSE)
           IN  ~put.threw /\ ~put.ok /\ put.store = localStorage
    /\ \A p \in ClientProcs :
           /\ call[p].error \notin {"Cache retrieval error", "Cache storage error"}
           /\ (/\ Completed(p)
               /\ call[p].repoQ = "resolved" /\ call[p].wfQ = "resolved"
               /\ IsDefined(call[p].repoData)
               /\ IsDefined(Get(call[p].repoData).repository))
              => ReturnedFresh(p)

\* a corrupt entry was read as a miss, and the result was returned although
\* it could not be written
C7_Witness ==
    \E p \in ClientProcs :
        ReturnedFresh(p) /\ call[p].entry = "corrupt" /\ ~call[p].wrote

\* C8 as stated: fetchWorkflowData never throws, also when no client is
\* installed
C8_Original == \A p \in ClientProcs : call[p].wfQ # "threw"

\* C9 as stated: while the queries of a submit are in flight, the scope check
\* that submit started has completed and accepted the token
C9_Original == \A p \in ClientProcs : call[p].pc = "fetching" => init[p].st = "ok"

(***************************************************************************)
(* Properties of the API route and its MongoDB cache                       *)
(***************************************************************************)
\* C3 as stated: getCachedScore never returns a document older than 24 hours
C3_Original ==
    \A o \in Owners, r \in Repos :
        LET got == mongoGetCachedScore(scores, db, ttlIndex, env, o, r, "ok", TRUE).value
        IN  IsDefined(got) => now - Get(got).createdAt <= 24 * 60 * 60 * 1000

\* C4 as stated, on the MongoDB store: right after a successful
\* cacheScore(o, r, X), getCachedScore(o, r) returns a document equal to X on
\* every field of X
C4_Original ==
    [][\A h \in Handlers :
          (req[h].pc = "fetched" /\ req'[h].pc = "done" /\ req'[h].wrote) =>
              LET X == Get(req'[h].body)
                  got == mongoGetCachedScore(scores', db', ttlIndex', env', req'[h].owner,
                                             req'[h].repo, "ok", TRUE).value
              IN  /\ IsDefined(got)
                  /\ \A f \in DOMAIN X : HasField(Get(got), f) /\ Get(got)[f] = X[f]]_vars

\* C6 as stated: the collection holds at most one document per owner and
\* repository
C6_Original ==
    \A i, j \in 1..Len(scores) :
        (scores[i].owner = scores[j].owner /\ scores[i].repo = scores[j].repo) => i = j

(***************************************************************************)
(* Properties of both deployments                                          *)
(***************************************************************************)
\* C10: when the repository query resolves without a repository,
\* calculateScore rejects with "Repository not found" and the handler answers
\* 404; when the repository query rejects, calculateScore rejects with that
\* error; no score result is returned in either case
C10_MissingRepository ==
    /\ \A p \in ClientProcs :
           /\ (/\ call[p].pc = "done"
               /\ call[p].repoQ = "resolved" /\ call[p].wfQ = "resolved"
               /\ (~IsDefined(call[p].repoData)
                   \/ ~IsDefined(Get(call[p].repoData).repository)))
              => call[p].error = "Repository not found" /\ call[p].result = Undefined
           /\ call[p].repoQ = "rejected"
              => /\ call[p].pc = "done"
                 /\ call[p].error \in RepoErrors
                 /\ call[p].result = Undefined
    /\ \A h \in Handlers :
           /\ (/\ req[h].pc = "done"
               /\ req[h].repoQ = "resolved" /\ req[h].wfQ = "resolved"
               /\ (~IsDefined(req[h].repoData)
                   \/ ~IsDefined(Get(req[h].repoData).repository)))
              => /\ req[h].status = 404
                 /\ req[h].error = "Repository not found"
                 /\ req[h].body = Undefined
           /\ req[h].repoQ = "rejected"
              => req[h].pc = "done" /\ req[h].status \in {404, 429, 500}
                 /\ req[h].body = Undefined

\* the page was told that the repository does not exist
C10_Witness ==
    \E p \in ClientProcs :
        /\ call[p].pc = "done" /\ call[p].repoQ = "resolved" /\ call[p].wfQ = "resolved"
        /\ IsDefined(call[p].repoData) /\ ~IsDefined(Get(call[p].repoData).repository)
        /\ call[p].error = "Repository not found"

(***************************************************************************)
(* Properties of the scorer                                                *)
(***************************************************************************)
\* the six categories by name
SixCategories ==
    {"documentation", "maintenance", "quality", "community", "popularity", "security"}

\* the repository and the category results of the snapshot being scored
TheRepo == Get(Get(snapshot).repository)

CategoryResults(t, monthDays) ==
    [documentation |-> scoreDocumentation(TheRepo),
     maintenance |-> scoreMaintenance(TheRepo, t, monthDays),
     quality |-> scoreQuality(listing),
     community |-> scoreCommunity(TheRepo),
     popularity |-> scorePopularity(TheRepo),
     security |-> scoreSecurity(TheRepo)]

\* C11: each category scorer returns a score in [0, 1] (0 .. 4 * 6000 in the
\* units of the model), and every result of calculateRepositoryScore has a
\* final score in [0, 10] and a display score in [0, 10] for each of the six
\* categories (0 .. 100 tenths)
C11_ScoreBounds ==
    /\ IsDefined(snapshot) =>
           \A m \in ThreeMonthsDays : \A c \in SixCategories :
               LET sc == CategoryResults(now, m)[c].score
               IN  0 <= sc /\ sc <= 4 * 6000
    /\ \A i \in 1..Len(scored) :
           /\ 0 <= scored[i].result.score /\ scored[i].result.score <= 100
           /\ DOMAIN scored[i].result.breakdown = SixCategories
           /\ \A c \in SixCategories :
                  /\ 0 <= scored[i].result.breakdown[c].score
                  /\ scored[i].result.breakdown[c].score <= 100

\* a repository at every cap was scored: a category reached 10, and a
\* category of the same result stayed at its floor
C11_Witness ==
    \E i \in 1..Len(scored) :
        /\ scored[i].result.breakdown["documentation"].score = 100
        /\ scored[i].result.breakdown["quality"].score = 0
        /\ Get(TheRepo.watchers) > 50

\* r tenths is num / den * 10 rounded to one decimal, a half rounding up
RoundsTo(r, num, den) ==
    /\ 2 * r * den <= 200 * num + den
    /\ 200 * num + den < 2 * (r + 1) * den

DocumentedWeights ==
    [documentation |-> 20, maintenance |-> 20, quality |-> 15,
     community |-> 15, popularity |-> 15, security |-> 15]

\* C13: the category weights are the documented constants and sum to 1.0 (100
\* percent), and every result reports exactly them, in metadata.weights and
\* in each breakdown entry, whatever the snapshot
C13_FixedWeights ==
    /\ CATEGORY_WEIGHTS = DocumentedWeights
    /\ CATEGORY_WEIGHTS.documentation + CATEGORY_WEIGHTS.maintenance
       + CATEGORY_WEIGHTS.quality + CATEGORY_WEIGHTS.community
       + CATEGORY_WEIGHTS.popularity + CATEGORY_WEIGHTS.security = 100
    /\ \A i \in 1..Len(scored) :
           /\ scored[i].result.metadata.weights = DocumentedWeights
           /\ \A c \in SixCategories :
                  scored[i].result.breakdown[c].weight = DocumentedWeights[c]

\* the weights were reported for the repository with nothing in it
C13_Witness ==
    /\ TheRepo = BareRepo
    /\ \E i \in 1..Len(scored) :
           scored[i].result.metadata.weights = DocumentedWeights

\* C14 as stated: any two calls on the same snapshot and workflow listing, at
\* whatever times, return results equal on every field but
\* metadata.calculatedAt
C14_Original ==
    \A i, j \in 1..Len(scored) :
        /\ scored[i].result.score = scored[j].result.score
        /\ scored[i].result.breakdown = scored[j].result.breakdown
        /\ scored[i].result.metadata.weights = scored[j].result.metadata.weights

\* no commit of the history names an author
NoAuthors(history) ==
    \A k \in 1..Len(history) :
        \/ ~IsDefined(history[k].author)
        \/ Get(history[k].author) = [login |-> <<>>, email |-> <<>>, name |-> <<>>]

\* C15: calculateRepositoryScore returns a result for every snapshot, whatever
\* optional fields are absent, and each absent field contributes its default
\* sub-score: 0 for README, CONTRIBUTING, code of conduct, releases, recency,
\* commit frequency, contributors, stars, forks, watchers and CI; 0.5 for
\* issue and pull-request management without counts
C15_TotalWithDefaults ==
    /\ \A i \in 1..Len(scored) :
           /\ scored[i].result.score \in 0..100
           /\ DOMAIN scored[i].result.breakdown = SixCategories
    /\ IsDefined(snapshot) =>
         \A m \in ThreeMonthsDays :
           LET cat == CategoryResults(now, m)
               doc == cat.documentation.breakdown
               mnt == cat.maintenance.breakdown
               qual == cat.quality.breakdown
               com == cat.community.breakdown
               pop == cat.popularity.breakdown
               absent(f) == TheRepo[f] = <<>>
           IN  /\ absent("readme") => doc.readme = 0
               /\ absent("contributing") => doc.contributing = 0
               /\ ~TheRepo.codeOfConduct => doc.codeOfConduct = 0 /\ com.communityHealth = 0
               /\ absent("releases") => doc.releases = 0
               /\ absent("pushedAt") => mnt.recentCommits = 0
               /\ absent("history") => mnt.commitFrequency = 0 /\ com.contributors = 0
               /\ (~absent("history") /\ NoAuthors(Get(TheRepo.history)))
                     => com.contributors = 0
               /\ absent("openIssues") /\ absent("closedIssues")
                     => mnt.issueManagement = 3000
               /\ absent("openPRs") /\ absent("mergedPRs") => mnt.prManagement = 3000
               /\ absent("stars") => pop.stars = 0
               /\ absent("forks") => pop.forks = 0
               /\ absent("watchers") => pop.watchers = 0
               /\ (listing = <<>> \/ Get(listing).entries = <<>>
                      \/ Get(listing).entries = <<0>>)
                     => qual.ciPipeline = 0

\* the repository with every optional field absent was scored without a
\* workflow listing
C15_Witness ==
    /\ TheRepo = BareRepo
    /\ listing = <<>>
    /\ \E i \in 1..Len(scored) : scored[i].result.score \in 0..100

\* C16 as stated: with an absent workflow listing the quality score is 0.125
\* (3000 of 4 * 6000) and the CI sub-score is 0
C16_Original ==
    listing = <<>> =>
        /\ scoreQuality(listing).score = 3000
        /\ scoreQuality(listing).breakdown.ciPipeline = 0

\* C16 (amended): with an absent or empty workflow listing all four quality
\* sub-scores are 0 and the quality score is exactly 0, displayed as 0; with
\* workflows present it is (1 + 0 + 0 + 0.5) / 4 = 0.375, displayed as 3.8
C16_AbsentListingQuality ==
    LET q == scoreQuality(listing)
        none == listing = <<>> \/ Get(listing).entries = <<>>
                \/ Get(listing).entries = <<0>>
    IN  /\ none =>
              /\ q.score = 0
              /\ q.breakdown = [ciPipeline |-> 0, testCoverage |-> 0, linting |-> 0,
                                buildStatus |-> 0]
              /\ \A i \in 1..Len(scored) : scored[i].result.breakdown["quality"].score = 0
        /\ (IsDefined(snapshot) /\ ~none) =>
              /\ q.score = 9000
              /\ q.breakdown.ciPipeline = 6000 /\ q.breakdown.buildStatus = 3000
              /\ \A i \in 1..Len(scored) : scored[i].result.breakdown["quality"].score = 38

\* a repository was scored without a workflow listing
C16_Witness ==
    /\ listing = <<>>
    /\ \E i \in 1..Len(scored) : scored[i].result.breakdown["quality"].score = 0

\* C17: the documentation score is the mean of four sub-scores: README 0, 0.5
\* or 1; CONTRIBUTING 1 iff present and longer than 100; code of conduct 1 iff
\* present; releases 1.0 for 5 or more, 0.7 for 2 to 4, 0.4 for 1, 0 for none.
\* With none of the four the score is 0.0; with 3 releases and the other three
\* perfect it is 0.925 (22200 of 4 * 6000)
C17_DocumentationMean ==
    IsDefined(snapshot) =>
        LET r == TheRepo
            d == scoreDocumentation(r)
            b == d.breakdown
            n == IF r.releases = <<>> THEN 0 ELSE r.releases[1]
            long == r.contributing # <<>> /\ r.contributing[1] > 100
        IN  /\ b.readme \in {0, 3000, 6000}
            /\ b.contributing = IF long THEN 6000 ELSE 0
            /\ b.codeOfConduct = IF r.codeOfConduct THEN 6000 ELSE 0
            /\ b.releases = CASE n >= 5 -> 6000
                               [] n \in 2..4 -> 4200
                               [] n = 1 -> 2400
                               [] OTHER -> 0
            /\ 4 * d.score = 4 * (b.readme + b.contributing + b.codeOfConduct + b.releases)
            /\ (r.readme = <<>> /\ r.contributing = <<>> /\ ~r.codeOfConduct /\ n = 0)
                   => d.score = 0
            /\ (b.readme = 6000 /\ long /\ r.codeOfConduct /\ n = 3) => d.score = 22200
            /\ \A i \in 1..Len(scored) :
                   RoundsTo(scored[i].result.breakdown["documentation"].score,
                            d.score, 4 * 6000)

\* a repository with 3 releases and a perfect README, CONTRIBUTING and code
\* of conduct was scored
C17_Witness ==
    /\ IsDefined(snapshot)
    /\ TheRepo.releases = <<3>>
    /\ TheRepo.codeOfConduct
    /\ TheRepo.contributing = <<101>>
    /\ scoreDocumentation(TheRepo).breakdown.readme = 6000
    /\ \E i \in 1..Len(scored) : scored[i].result.breakdown["documentation"].score = 93

\* the scopes GitHub reports for a token, as checkScopes returns them
GrantedScopes(token) == checkScopes(token, TRUE).scopes

\* an initialize of process p settles in this step, its scope check having
\* returned the scopes of the token
ScopesChecked(p) ==
    /\ init[p].st = "pending"
    /\ init'[p].st \in {"ok", "failed"}
    /\ init'[p].error.message \in {"", "Token must have 'repo' or 'public_repo' permissions"}

\* C18: initialize succeeds and installs a client exactly when the scopes of
\* the token include repo or public_repo; scopes beyond these only set
\* hasExtraPermissions and clear hasMinimalPermissions; a token with neither
\* scope, an empty scope list included, fails with an error that lists the
\* granted scopes, and no client is installed
C18_ScopePolicy ==
    [][\A p \in ClientProcs : ScopesChecked(p) =>
          LET token == init[p].token
              granted == GrantedScopes(token)
              required == \E i \in 1..Len(granted) : granted[i] \in {"repo", "public_repo"}
              extra == \E i \in 1..Len(granted) : granted[i] \notin {"repo", "public_repo"}
              tv == tokenValidation'[1]
          IN  /\ init'[p].st = "ok" <=> required
              /\ tokenValidation' # <<>>
              /\ tv.scopes = granted
              /\ required =>
                    /\ githubGraphQL' = <<token>>
                    /\ tv.isValid
                    /\ tv.hasExtraPermissions = extra
                    /\ tv.hasMinimalPermissions = ~extra
              /\ ~required =>
                    /\ githubGraphQL' = githubGraphQL
                    /\ ~tv.isValid
                    /\ init'[p].error.scopes = IF granted = <<>> THEN <<"none">> ELSE granted
    ]_vars

\* a token with public_repo and one more scope has initialized the service
C18_Witness ==
    /\ \E p \in ClientProcs : init[p].st = "ok"
    /\ githubGraphQL = <<"ghp_wide">>
    /\ tokenValidation # <<>>
    /\ tokenValidation[1].hasExtraPermissions
    /\ ~tokenValidation[1].hasMinimalPermissions

\* the queries a run has sent agree with what became of them: none before the
\* query is issued, one from then on
SentOnce(r) ==
    /\ r.repoN = IF r.repoQ \in {"pending", "resolved", "rejected"} THEN 1 ELSE 0
    /\ r.wfN = IF r.wfQ \in {"pending", "resolved", "rejected"} THEN 1 ELSE 0

\* C19: within one calculateScore call and within one invocation of the API
\* handler each of the two queries is sent at most once, whatever the outcome,
\* a rate-limit error included: the call ends with that error
C19_NoRetries ==
    /\ \A p \in ClientProcs :
          /\ SentOnce(call[p])
          /\ call[p].repoQ = "rejected" => call[p].pc = "done" /\ call[p].error \in RepoErrors
    /\ \A h \in Handlers :
          /\ SentOnce(req[h])
          /\ req[h].repoQ = "rejected" => req[h].pc = "done" /\ req[h].status \in {404, 429, 500}

\* a call, or a request, has ended with the rate-limit error of its one
\* repository query
C19_Witness ==
    \/ \E p \in ClientProcs :
          /\ call[p].pc = "done" /\ call[p].error = "API rate limit exceeded"
          /\ call[p].repoQ = "rejected" /\ call[p].repoN = 1
    \/ \E h \in Handlers :
          /\ req[h].pc = "done" /\ req[h].status = 429
          /\ req[h].repoQ = "rejected" /\ req[h].repoN = 1

\* the run r of calculateScore, or of the handler, becomes d in one step;
\* scoring names the position at which the run is about to score
FetchThenScore(r, d, scoring) ==
    \* started: the two fetchers are called together, before anything is awaited
    /\ (r.pc \in {"idle", "done"} /\ d # r) =>
          /\ d.repoQ = "none" <=> d.wfQ = "none"
          /\ d.repoQ = "pending" <=> d.wfQ = "pending"
          /\ d.pc \in {"fetching", "done"}
          /\ d.pc = "fetching" => d.repoQ = "pending" /\ d.wfQ = "pending"
    \* one of the two settles: the run goes on only when the other has settled
    /\ (r.pc = "fetching" /\ d # r) =>
          /\ d.pc = scoring => d.repoQ = "resolved" /\ d.wfQ = "resolved"
          /\ (d.repoQ = "resolved" /\ d.wfQ = "pending") => d.pc = "fetching"
          /\ (d.repoQ = "pending" /\ d.wfQ = "resolved") => d.pc = "fetching"
          /\ (d.repoQ = "resolved" /\ d.wfQ = "resolved") => d.pc \in {scoring, "done"}
    \* scored: both had settled
    /\ (r.pc = scoring /\ d # r) =>
          /\ r.repoQ = "resolved" /\ r.wfQ = "resolved"
          /\ d.pc = "done"

\* the breakdown of a score computed without a workflow listing
ScoredWithoutCI(result) ==
    /\ ~result.cached
    /\ result.breakdown["quality"].score = 0
    /\ ~result.breakdown["quality"].details.ci

\* C20: on a cache miss the two fetches are issued together, before either is
\* awaited; scoring starts only when both have settled, in whichever order;
\* a workflow fetch that failed counts as an absent listing, and the
\* repository is scored with a CI sub-score of 0
C20_FetchThenScore ==
    [][/\ \A p \in ClientProcs :
             /\ FetchThenScore(call[p], call'[p], "importing")
             /\ (call'[p].entry \in {"none", "expired"} /\ call[p].pc \in {"idle", "done"}
                 /\ call'[p] # call[p] /\ call'[p].client # <<>>)
                    => call'[p].pc = "fetching"
             /\ (call[p].pc = "importing" /\ call[p].wfData = <<>>
                 /\ call'[p].pc = "done" /\ call'[p].result # <<>>)
                    => ScoredWithoutCI(call'[p].result[1])
       /\ \A h \in Handlers :
             /\ FetchThenScore(req[h], req'[h], "fetched")
             /\ (req[h].pc = "fetched" /\ req[h].wfData = <<>>
                 /\ req'[h].pc = "done" /\ req'[h].status = 200)
                    => ScoredWithoutCI(req'[h].body[1])
    ]_vars

\* the workflow fetch has failed, the repository fetch has resolved, and the
\* repository is about to be scored
C20_Witness ==
    \E p \in ClientProcs :
        /\ call[p].pc = "importing"
        /\ call[p].repoQ = "resolved" /\ call[p].wfQ = "resolved"
        /\ call[p].wfData = <<>>

\* the workflow listing of the state has at least one entry
ListingNonEmpty ==
    /\ listing # <<>>
    /\ listing[1].entries # <<>>
    /\ listing[1].entries[1] > 0

\* C25 as stated: the quality score is the mean of its four sub-scores and
\* its maximum over the workflow listings, reached with workflows present, is
\* 0.5 (12000 of 4 * 6000)
C25_Original ==
    LET q == scoreQuality(listing)
    IN  /\ q.score <= 12000
        /\ ListingNonEmpty => q.score = 12000

\* C25 (amended): the quality score is the mean of CI pipeline (1 iff the
\* listing is non-empty), test coverage (0), linting (0) and build status
\* (0.5 iff workflows are present); the largest value it takes over the
\* workflow listings is 0.375 (9000 of 4 * 6000)
C25_QualityMean ==
    LET q == scoreQuality(listing)
        b == q.breakdown
    IN  /\ b.ciPipeline = IF ListingNonEmpty THEN 6000 ELSE 0
        /\ b.testCoverage = 0
        /\ b.linting = 0
        /\ b.buildStatus = IF ListingNonEmpty THEN 3000 ELSE 0
        /\ q.score = b.ciPipeline + b.testCoverage + b.linting + b.buildStatus
        /\ \A l \in ScoringListings : scoreQuality(l).score <= 9000
        /\ \E l \in ScoringListings : scoreQuality(l).score = 9000
        /\ \A i \in 1..Len(scored) : scored[i].result.breakdown["quality"].score <= 38

\* a repository was scored with two workflow files: quality 3.8 of 10
C25_Witness ==
    /\ ListingNonEmpty
    /\ \E i \in 1..Len(scored) : scored[i].result.breakdown["quality"].score = 38

\* C30: whatever the snapshot and the workflow listing, the final score lies
\* between 0.6 and 8.1 inclusive, both of which are reached; it is strictly
\* positive, and it is the rounded weighted sum itself, the clamp to 10
\* changing nothing
C30_AttainableRange ==
    /\ \A i \in 1..Len(scored) :
          LET cat == CategoryResults(scored[i].at, scored[i].monthDays)
              sum == 20 * cat.documentation.score + 20 * cat.maintenance.score
                     + 15 * cat.quality.score + 15 * cat.community.score
                     + 15 * cat.popularity.score + 15 * cat.security.score
              final == scored[i].result.score
          IN  /\ 6 <= final /\ final <= 81
              /\ final > 0
              /\ RoundsTo(final, sum, 4 * 6000 * 100)
              /\ (TheRepo = FloorRepo /\ ~ListingNonEmpty) => final = 6
              /\ (TheRepo = TopRepo /\ ListingNonEmpty) => final = 81

\* the repository with every sub-score at its lowest was scored 0.6
C30_Witness ==
    /\ IsDefined(snapshot)
    /\ TheRepo = FloorRepo
    /\ listing = <<>>
    /\ \E i \in 1..Len(scored) : scored[i].result.score = 6

\* the repository with every sub-score at its highest was scored 8.1
C30_Ceiling ==
    /\ IsDefined(snapshot)
    /\ TheRepo = TopRepo
    /\ ListingNonEmpty
    /\ \E i \in 1..Len(scored) : scored[i].result.score = 81

\* values around and between the bounds the scorers pass to the normalizers
\* in increasing order
LogValues == <<0 - 1, 0, 1, 2, 3, 4, 5, 6, 7, 8, 9, 10, 49, 50, 100, 1000, 10000>>
LinearValues == (0 - 1)..101

\* the (min, max) pairs the scorers use with normalizeLog
StarsRange == <<0, 1000>>
ForksRange == <<0, 100>>
WatchersRange == <<0, 50>>

\* C24: normalizeLog and normalizeLinear return a value for every input, stay
\* within [0, 1] (0 .. 6000), do not decrease when the value grows, and give 0
\* at min and 1 at max; so 1000 stars or more give a stars sub-score of
\* exactly 1.0, and with 100 forks and 50 watchers or more as well the
\* popularity score is 0.875 (21000 of 4 * 6000)
C24_Normalizers ==
    /\ \A rg \in {StarsRange, ForksRange} :
          /\ normalizeLog(rg[1], rg[1], rg[2]) = 0
          /\ normalizeLog(rg[2], rg[1], rg[2]) = 6000
          /\ \A k \in 1..Len(LogValues) :
                LET v == LogValues[k]
                IN  /\ normalizeLog(v, rg[1], rg[2]) \in 0..6000
                    /\ v >= rg[2] => normalizeLog(v, rg[1], rg[2]) = 6000
                    /\ k < Len(LogValues) =>
                          normalizeLog(v, rg[1], rg[2])
                             <= normalizeLog(LogValues[k + 1], rg[1], rg[2])
    /\ normalizeLinear(WatchersRange[1], WatchersRange[1], WatchersRange[2]) = 0
    /\ normalizeLinear(WatchersRange[2], WatchersRange[1], WatchersRange[2]) = 6000
    /\ \A v \in LinearValues :
          /\ normalizeLinear(v, WatchersRange[1], WatchersRange[2]) \in 0..6000
          /\ normalizeLinear(v, WatchersRange[1], WatchersRange[2])
                <= normalizeLinear(v + 1, WatchersRange[1], WatchersRange[2])
    /\ IsDefined(snapshot) =>
          LET r == TheRepo
              p == scorePopularity(r)
              stars == IF r.stars = <<>> THEN 0 ELSE r.stars[1]
              forks == IF r.forks = <<>> THEN 0 ELSE r.forks[1]
              watchers == IF r.watchers = <<>> THEN 0 ELSE r.watchers[1]
          IN  /\ stars >= 1000 => p.breakdown.stars = 6000
              /\ (stars >= 1000 /\ forks >= 100 /\ watchers >= 50) =>
                    /\ p.score = 21000
                    /\ \A i \in 1..Len(scored) :
                          scored[i].result.breakdown["popularity"].score = 88

\* a repository with 10000 stars, 100 forks and 100 watchers was scored
C24_Witness ==
    /\ IsDefined(snapshot)
    /\ TheRepo.stars = <<10000>> /\ TheRepo.forks = <<100>> /\ TheRepo.watchers = <<100>>
    /\ \E i \in 1..Len(scored) : scored[i].result.breakdown["popularity"].score = 88

\* the identity of a commit: the username of its author if there is one, else
\* the email, else the display name; <<>> when the commit has none
Identity(commit) ==
    IF commit.author = <<>> THEN <<>>
    ELSE LET a == commit.author[1]
         IN  CASE a.login # <<>> -> a.login
               [] a.email # <<>> -> a.email
               [] OTHER -> a.name

\* C23: the contributor count of the community scorer is the number of
\* distinct commit identities of the history, letter case ignored, commits
\* without one skipped; it is at least 1, at most the number of commits of a
\* non-empty history, and 1 when the history is absent or empty
C23_ContributorCount ==
    IsDefined(snapshot) =>
        LET h == TheRepo.history
            commits == IF h = <<>> THEN <<>> ELSE h[1]
            ids == {toLowerCase(Identity(commits[k])) : k \in 1..Len(commits)} \ {<<>>}
            n == contributorCount(h)
        IN  /\ n = IF ids = {} THEN 1 ELSE Cardinality(ids)
            /\ n >= 1
            /\ Len(commits) > 0 => n <= Len(commits)
            /\ Len(commits) = 0 => n = 1
            /\ scoreCommunity(TheRepo).details.contributors = n
            /\ \A i \in 1..Len(scored) :
                  scored[i].result.breakdown["community"].details.contributors = n

\* a history of four commits, two by the same user in different letter case
\* and two without identity, was scored with one contributor
C23_Witness ==
    /\ IsDefined(snapshot)
    /\ TheRepo.history # <<>>
    /\ Len(TheRepo.history[1]) = 4
    /\ \E k \in 1..4 : Identity(TheRepo.history[1][k]) = <<"A">>
    /\ \E k \in 1..4 : Identity(TheRepo.history[1][k]) = <<"a">>
    /\ \E i \in 1..Len(scored) :
          scored[i].result.breakdown["community"].details.contributors = 1

\* the categories that are not given the workflow listing
RepoCategories == {"documentation", "maintenance", "community", "popularity", "security"}

\* C22 as stated: the result of a category depends on its own input slice
\* only; scoring the snapshot with any other workflow listing gives, for the
\* five categories that are not given the listing, the score and details of
\* every result already returned for the snapshot
C22_Original ==
    \A i \in 1..Len(scored) : \A l \in ScoringListings :
        LET other == calculateRepositoryScore(Get(snapshot), l, now, scored[i].monthDays)
        IN  \A c \in RepoCategories :
                other.breakdown[c] = scored[i].result.breakdown[c]

\* C26 as stated: a call for one (owner, repo) pair is never answered with
\* the cache entry of another pair, names with "-" included
C26_Original ==
    \A p \in ClientProcs :
        ReturnedCached(p) =>
            /\ call[p].result[1].owner = call[p].owner
            /\ call[p].result[1].repo = call[p].repo

\* the scopes of the token allow reading repositories
TokenValid(token) ==
    \E i \in 1..Len(GrantedScopes(token)) :
        GrantedScopes(token)[i] \in {"repo", "public_repo"}

\* C27 as stated: the queries of a submit are sent with the client built from
\* the token of that submit, and a submit with a valid token does not fail
\* with "Service not initialized with GitHub token".  While the scope check
\* of a submit is pending, init[p].token is the token of the submit
C27_Original ==
    \A p \in ClientProcs :
        init[p].st = "pending" =>
            /\ (Issued(call[p].repoQ) \/ Issued(call[p].wfQ))
                   => call[p].client = <<init[p].token>>
            /\ (call[p].error = NotInitializedError /\ UserResponse(init[p].token).status = 200)
                   => ~TokenValid(init[p].token)

\* the queries of a submit went out with the client of an earlier token
C27_EarlierClient ==
    \E p \in ClientProcs :
        /\ init[p].st = "pending"
        /\ Issued(call[p].repoQ)
        /\ call[p].client # <<>>
        /\ call[p].client # <<init[p].token>>

\* C28 as stated: whenever the service holds a client, tokenValidation is
\* set, has isValid = TRUE and describes the token the client was built from
C28_Original ==
    githubGraphQL # <<>> =>
        /\ tokenValidation # <<>>
        /\ tokenValidation[1].isValid
        /\ tokenValidation[1].scopes = GrantedScopes(githubGraphQL[1])

\* C29: a request that ends in an error leaves the cache as it was: a step of
\* calculateScore changes localStorage only when it ends the call with a
\* result, and a step of the API handler changes the scores collection only
\* when it answers 200; the step that ends a request in an error changes
\* neither
C29_FailureKeepsCache ==
    [][/\ \A p \in ClientProcs :
             call'[p] # call[p] =>
                /\ localStorage' # localStorage =>
                      /\ call'[p].pc = "done"
                      /\ call'[p].result # <<>>
                      /\ call'[p].error = ""
                /\ (call'[p].pc = "done" /\ call'[p].error # "") =>
                      localStorage' = localStorage
       /\ \A h \in Handlers :
             req'[h] # req[h] =>
                /\ scores' # scores =>
                      /\ req'[h].pc = "done"
                      /\ req'[h].status = 200
                /\ (req'[h].pc = "done" /\ req'[h].status # 200) => scores' = scores
    ]_vars

\* a request for a key with a stored entry has failed, by a rejected or
\* missing repository, and the entry is still stored
C29_Witness ==
    \/ \E p \in ClientProcs :
          /\ Completed(p)
          /\ call[p].error \in RepoErrors \cup {NotFoundError}
          /\ CacheKey(call[p].owner, call[p].repo) \in DOMAIN localStorage
    \/ \E h \in Handlers :
          /\ req[h].pc = "done"
          /\ req[h].status \in {404, 429, 500}
          /\ req[h].repoQ \in {"resolved", "rejected"}
          /\ \E i \in 1..Len(scores) :
                /\ scores[i].owner = toLowerCase(req[h].owner)
                /\ scores[i].repo = toLowerCase(req[h].repo)

\* the calls of p and q raced: both completed a computation of their own for
\* the same owner and repository, each having found no entry at its start
RacedCalls(p, q) ==
    /\ p # q
    /\ call[p].pc = "done" /\ call[q].pc = "done"
    /\ call[p].entry = "none" /\ call[q].entry = "none"
    /\ call[p].repoQ = "resolved" /\ call[q].repoQ = "resolved"
    /\ call[p].owner = call[q].owner /\ call[p].repo = call[q].repo

\* the requests of h and g raced: both missed the cache and fetched for the
\* same owner and repository
RacedRequests(h, g) ==
    /\ h # g
    /\ req[h].pc = "done" /\ req[g].pc = "done"
    /\ req[h].repoQ = "resolved" /\ req[g].repoQ = "resolved"
    /\ req[h].owner = req[g].owner /\ req[h].repo = req[g].repo

\* the documents of the collection for the key of owner and repo
KeyDocuments(owner, repo) ==
    {i \in 1..Len(scores) : /\ toLowerCase(scores[i].owner) = toLowerCase(owner)
                            /\ toLowerCase(scores[i].repo) = toLowerCase(repo)}

SameScore(x, y) == x.score = y.score /\ x.breakdown = y.breakdown

\* C21 as stated: when two calls for the same owner and repository both miss
\* a cold cache and both fetch the same data, whatever their interleaving,
\* neither fails, and the cache ends with exactly one entry for the key whose
\* score and breakdown are those each caller received
C21_Original ==
    /\ \A p, q \in DOMAIN call :
           RacedCalls(p, q) =>
               /\ IsDefined(call[p].result) /\ IsDefined(call[q].result)
               /\ LET key == CacheKey(call[p].owner, call[p].repo)
                  IN  /\ key \in DOMAIN localStorage
                      /\ localStorage[key].kind = "object"
                      /\ SameScore(localStorage[key].value, Get(call[p].result))
                      /\ SameScore(localStorage[key].value, Get(call[q].result))
    /\ \A h, g \in DOMAIN req :
           RacedRequests(h, g) =>
               /\ req[h].status = 200 /\ req[g].status = 200
               /\ LET docs == KeyDocuments(req[h].owner, req[h].repo)
                  IN  /\ Cardinality(docs) = 1
                      /\ \A i \in docs : /\ SameScore(scores[i], Get(req[h].body))
                                         /\ SameScore(scores[i], Get(req[g].body))

\* the part of C21 on localStorage
C21_PageRace ==
    \A p, q \in DOMAIN call :
        RacedCalls(p, q) =>
            /\ IsDefined(call[p].result) /\ IsDefined(call[q].result)
            /\ LET key == CacheKey(call[p].owner, call[p].repo)
               IN  /\ key \in DOMAIN localStorage
                   /\ localStorage[key].kind = "object"
                   /\ SameScore(localStorage[key].value, Get(call[p].result))
                   /\ SameScore(localStorage[key].value, Get(call[q].result))

\* two calls of the page have raced
C21_PageRaced == \E p, q \in DOMAIN call : RacedCalls(p, q)
====
